---- MODULE Spec2Model ----
(***************************************************************************)
(* The embedded command console (CyberTerminal) of action-packed-agenda:   *)
(* the argument parser, the command dispatcher, recall navigation over the *)
(* command history, and the session state (active timer, theme) mirrored   *)
(* into localStorage.                                                      *)
(*                                                                         *)
(* Text.  A JavaScript string is modelled as a sequence of atoms; an atom  *)
(* is a TLA+ string holding either one significant character (" ", "-",    *)
(* "=", "'", "\"", ",") or an indivisible run of other characters          *)
(* ("todo.add", "high", "5").  Every string operation of the source that   *)
(* the console uses (trim, split, startsWith, substring(1), join, replace, *)
(* parseInt) cuts only at those significant characters, so it is computed  *)
(* here on atoms exactly as the source computes it on characters.          *)
(*                                                                         *)
(* Optional values.  null / undefined is the empty tuple <<>>; a present   *)
(* value v is the one-element tuple <<v>>.                                 *)
(***************************************************************************)
EXTENDS Integers, Sequences, FiniteSets, TLC

Null == <<>>
Some(v) == <<v>>

SP == " "
DASH == "-"
EQ == "="
SQUOTE == "'"
DQUOTE == "\""

(* ------------------------------------------------------------------ *)
(* String helpers (JavaScript built-ins used by the console)           *)
(* ------------------------------------------------------------------ *)

\* The characters of a string, concatenated: the string an atom sequence stands for.
RECURSIVE Str(_)
Str(s) == IF s = <<>> THEN "" ELSE Head(s) \o Str(Tail(s))

\* String.prototype.length, in characters.
RECURSIVE Length(_)
Length(s) == IF s = <<>> THEN 0 ELSE Len(Head(s)) + Length(Tail(s))

\* String.prototype.trim
RECURSIVE TrimStart(_)
TrimStart(s) == IF s = <<>> THEN s
                ELSE IF Head(s) = SP THEN TrimStart(Tail(s)) ELSE s

RECURSIVE TrimEnd(_)
TrimEnd(s) == IF s = <<>> THEN s
              ELSE IF s[Len(s)] = SP THEN TrimEnd(SubSeq(s, 1, Len(s) - 1)) ELSE s

\* A trim of the leading spaces only, and none at all.
Trim_StartOnly(s) == TrimStart(s)
Trim_Nothing(s) == s

Trim(s) == TrimEnd(TrimStart(s))

\* String.prototype.split(sep): the pieces between separators, empty pieces kept.
RECURSIVE SplitAcc(_, _, _, _)
SplitAcc(s, sep, cur, acc) ==
    IF s = <<>> THEN Append(acc, cur)
    ELSE IF Head(s) = sep THEN SplitAcc(Tail(s), sep, <<>>, Append(acc, cur))
    ELSE SplitAcc(Tail(s), sep, Append(cur, Head(s)), acc)

Split(s, sep) == SplitAcc(s, sep, <<>>, <<>>)

\* Array.prototype.join(' ')
RECURSIVE Join(_)
Join(toks) == IF toks = <<>> THEN <<>>
              ELSE IF Len(toks) = 1 THEN toks[1]
              ELSE toks[1] \o <<SP>> \o Join(Tail(toks))

\* String.prototype.replace(/['"]/g, '')
RECURSIVE StripQuotes(_)
StripQuotes(s) == IF s = <<>> THEN s
                  ELSE IF Head(s) \in {SQUOTE, DQUOTE} THEN StripQuotes(Tail(s))
                  ELSE <<Head(s)>> \o StripQuotes(Tail(s))

\* String.prototype.startsWith
StartsWith(s, c) == s # <<>> /\ Head(s) = c
StartsWith2(s, c) == Len(s) >= 2 /\ s[1] = c /\ s[2] = c

\* String.prototype.toLowerCase, on the atoms the inputs use.
ToLowerCaseAtom(a) == IF a = "HELP" THEN "help"
                      ELSE IF a = "Time.Stop" THEN "time.stop"
                      ELSE a

RECURSIVE ToLowerCase(_)
ToLowerCase(s) == IF s = <<>> THEN s
                  ELSE <<ToLowerCaseAtom(Head(s))>> \o ToLowerCase(Tail(s))

\* Truthiness of an optional string: undefined and "" are falsy.
Truthy(o) == o # Null /\ o[1] # <<>>

\* a || b on optional strings
Or(a, b) == IF Truthy(a) THEN a ELSE b

\* args[i] of a JavaScript array (1-based here): undefined past the end.
At(arr, i) == IF i >= 1 /\ i <= Len(arr) THEN Some(arr[i]) ELSE Null

(* ------------------------------------------------------------------ *)
(* parseArgs                                                           *)
(* ------------------------------------------------------------------ *)

\* A flag map that lacks the short form of priority.
flagMap_NoPriority == [d |-> "date", t |-> "tags", h |-> "help", f |-> "format"]

\* const flagMap = { p: 'priority', d: 'date', t: 'tags', h: 'help', f: 'format' }
flagMap == [p |-> "priority", d |-> "date", t |-> "tags", h |-> "help", f |-> "format"]

\* parsed[key] = value
Put(parsed, key, val) == [k \in DOMAIN parsed \cup {key} |->
                             IF k = key THEN val ELSE parsed[k]]

\* parsed[key], undefined when the key was never set
Get(parsed, key) == IF key \in DOMAIN parsed THEN parsed[key] ELSE Null

EmptyFlags == [k \in {} |-> Null]

\* flagMap is an object literal: names it does not define are looked up in
\* Object.prototype, whose members are functions (an object for __proto__).
objectPrototype ==
    {"constructor", "toString", "valueOf", "hasOwnProperty", "isPrototypeOf",
     "propertyIsEnumerable", "toLocaleString", "__proto__"}

\* flagMap[shortFlag]: the long name, the text an inherited member is rendered as in a
\* template string, or undefined.
lookupFlag(shortFlag) ==
    IF shortFlag \in DOMAIN flagMap THEN Some(flagMap[shortFlag])
    ELSE IF shortFlag = "__proto__" THEN Some("[object Object]")
    ELSE IF shortFlag \in objectPrototype
    THEN Some("function " \o (IF shortFlag = "constructor" THEN "Object" ELSE shortFlag)
              \o "() { [native code] }")
    ELSE Null

\* One iteration of the for loop at index i (1-based) and the rest of the loop.
RECURSIVE parseLoop(_, _, _, _)
parseLoop(args, i, parsed, positional) ==
    IF i > Len(args) THEN [parsed |-> parsed, positional |-> positional]
    ELSE LET arg == args[i] IN
         IF StartsWith2(arg, DASH)
         THEN LET parts == Split(arg, EQ)
                  key == Str(parts[1])
                  value == At(parts, 2)
              IN  parseLoop(args,
                            IF Truthy(value) THEN i + 1 ELSE i + 2,
                            Put(parsed, key, Or(value, At(args, i + 1))),
                            positional)
         ELSE IF StartsWith(arg, DASH) /\ Length(arg) > 1
         THEN LET shortFlag == Str(Tail(arg))
                  fullFlag == lookupFlag(shortFlag)
              IN
              IF fullFlag # Null
              THEN parseLoop(args, i + 2,
                             Put(parsed, "--" \o fullFlag[1], At(args, i + 1)),
                             positional)
              ELSE parseLoop(args, i + 1, parsed, positional)
         ELSE parseLoop(args, i + 1, parsed, Append(positional, arg))

parseArgs(args) == parseLoop(args, 1, EmptyFlags, <<>>)

(* ------------------------------------------------------------------ *)
(* Bounds of the model                                                 *)
(* ------------------------------------------------------------------ *)

\* Commands submitted per page load (the length Command History may reach).
MaxHistory == 3
\* Collaborator calls recorded over a whole run.
MaxCalls == 3
\* Commands submitted per page load in the specifications that range over many inputs.
MaxCommands == 2
\* Commands submitted per page load where the history listing is to pass its window.
MaxLongHistory == 11

\* Clock ticks over a whole run.
MaxTicks == 2
\* Milliseconds the clock advances per tick (half a minute).
TickMs == 30000

(* ------------------------------------------------------------------ *)
(* State                                                               *)
(* ------------------------------------------------------------------ *)

VARIABLES
    commands,           \* useState<Command[]>: the Transcript
    currentInput,       \* useState(""): the input field
    commandHistory,     \* useState<string[]>([])
    historyIndex,       \* useState(-1): the recall cursor
    navigationHistory,  \* useState<string[]>([])
    activeTimeLog,      \* useState<{activity, startTime} | null>(null)
    currentTheme,       \* useState('purple')
    pathname,           \* location.pathname (react-router)
    localStorage,       \* the keys activeTimeLog and cyberTerminalTheme
    inflight,           \* executeCommand invocations suspended at an await
    queued,             \* state updates queued by the mount effects, not yet rendered
    phase,              \* "hydrate": mounted, load effects ran; "ready"; "reloading"
    calls,              \* every collaborator call issued, with its outcome
    now,                \* Date.now(), in ms
    ev,                 \* the event handled last, and for arrow keys its place in the
                        \* run of presses that began at a fresh cursor
    lines,              \* TerminalAuthPage: useState<TerminalLine[]>
    currentCommand,     \* TerminalAuthPage: useState("")
    isProcessing,       \* TerminalAuthPage: useState(false)
    attempts            \* TerminalAuthPage: login calls awaited by a handler

vars == <<commands, currentInput, commandHistory, historyIndex, navigationHistory,
          activeTimeLog, currentTheme, pathname, localStorage, inflight, queued,
          phase, calls, now, ev, lines, currentCommand, isProcessing, attempts>>

\* The React state of the authentication terminal and the calls it awaits.
authVars == <<lines, currentCommand, isProcessing, attempts>>

\* The state of the console apart from the route and the last event.
consoleVars == <<commands, currentInput, commandHistory, historyIndex, navigationHistory,
                 activeTimeLog, currentTheme, localStorage, inflight, queued, phase,
                 calls, now>>

\* The React state of the component together with what it reads through hooks.
session == <<commands, currentInput, commandHistory, historyIndex, navigationHistory,
             activeTimeLog, currentTheme, pathname, localStorage, inflight, queued,
             phase, calls>>

\* An event other than an arrow key.
Ev(op) == [op |-> op, ups |-> 0, downs |-> 0]

\* const [commands, setCommands] = useState<Command[]>([{ input: "system.boot()", ... }])
bootCommand ==
    [input |-> <<"system.boot()">>,
     output |-> << <<">>> CYBERPUNK PRODUCTIVITY TERMINAL v3.0 <<<">>,
                   <<">>> Enhanced neural interface loaded...">>,
                   <<">>> Smart time tracking initialized...">>,
                   <<">>> Database connection established">>,
                   <<">>> Type 'help' for available commands">> >>,
     timestamp |-> 0,
     type |-> "info"]

\* JSON.stringify / JSON.parse of the active time log
JSONstringify(t) == <<"{\"activity\":", t.activity, ",\"startTime\":", t.startTime, "}">>
JSONparse(j) == [activity |-> j[2], startTime |-> j[4]]

\* localStorage.getItem / setItem / removeItem
getItem(store, key) == store[key]
setItem(store, key, val) == [store EXCEPT ![key] = Some(val)]
removeItem(store, key) == [store EXCEPT ![key] = Null]

\* A save effect that writes a running timer but never removes a stopped one.
saveTimeLogEffect_NoRemove(store, timeLog) ==
    IF timeLog # Null THEN setItem(store, "activeTimeLog", JSONstringify(timeLog[1]))
    ELSE store

\* useEffect(..., [activeTimeLog]): save the active time log
saveTimeLogEffect(store, timeLog) ==
    IF timeLog # Null
    THEN setItem(store, "activeTimeLog", JSONstringify(timeLog[1]))
    ELSE removeItem(store, "activeTimeLog")

\* useEffect(..., [currentTheme]): save the theme
saveThemeEffect(store, theme) == setItem(store, "cyberTerminalTheme", theme)

\* Both save effects, as they run after a render.
saveEffects(store, timeLog, theme) ==
    saveThemeEffect(saveTimeLogEffect(store, timeLog), theme)

\* useEffect(..., []): load the active time log; the value handed to setActiveTimeLog,
\* or no update at all.
loadTimeLogEffect(store) ==
    LET savedTimeLog == getItem(store, "activeTimeLog") IN
    IF savedTimeLog # Null THEN Some(Some(JSONparse(savedTimeLog[1]))) ELSE Null

\* useEffect(..., []): load the theme; the value handed to setCurrentTheme.
loadThemeEffect(store) ==
    LET savedTheme == getItem(store, "cyberTerminalTheme") IN
    IF savedTheme # Null /\ savedTheme[1] # "" THEN savedTheme[1] ELSE "purple"

\* The first render of the component and its effects, in declaration order: the two
\* load effects queue their updates, the two save effects write the initial state.
mount(store) ==
    [queued |-> [activeTimeLog |-> loadTimeLogEffect(store),
                 currentTheme |-> loadThemeEffect(store)],
     localStorage |-> saveEffects(store, Null, "purple")]

EmptyStore == [activeTimeLog |-> Null, cyberTerminalTheme |-> Null]

\* A line of the authentication terminal.
TerminalLine(type, text, timestamp) ==
    [type |-> type, text |-> text, timestamp |-> timestamp]

\* TerminalAuthPage after construction: the banner, an empty input, nothing processing.
authMounted ==
    /\ lines = << TerminalLine("system", <<"CYBER_PRODUCTIVE v2.0.1 - Authentication Terminal">>, Null),
                  TerminalLine("system", <<"================================================">>, Null),
                  TerminalLine("system", <<"Available commands:">>, Null),
                  TerminalLine("system", <<"  login -g                     : Google OAuth login">>, Null),
                  TerminalLine("system", <<"  login -u=email -p=password   : Email/password login">>, Null),
                  TerminalLine("system", <<"  sign-up                      : Create new account">>, Null),
                  TerminalLine("system", <<"  help                         : Show this help">>, Null),
                  TerminalLine("system", <<"  clear                        : Clear terminal">>, Null),
                  TerminalLine("system", <<"================================================">>, Null),
                  TerminalLine("system", <<"Type a command to begin...">>, Null) >>
    /\ currentCommand = <<>>
    /\ isProcessing = FALSE
    /\ attempts = <<>>

\* The state after construction when the browser holds store at page load.
InitFrom(store) ==
    /\ commands = <<bootCommand>>
    /\ currentInput = <<>>
    /\ commandHistory = <<>>
    /\ historyIndex = -1
    /\ navigationHistory = <<>>
    /\ activeTimeLog = Null
    /\ currentTheme = "purple"
    /\ pathname = "/"
    /\ localStorage = mount(store).localStorage
    /\ queued = mount(store).queued
    /\ inflight = <<>>
    /\ phase = "hydrate"
    /\ calls = <<>>
    /\ now = 0
    /\ ev = Ev("mount")
    /\ authMounted

\* A first visit: nothing stored.
Init == InitFrom(EmptyStore)

\* A visit signed out: the router shows the authentication terminal at /auth.
InitAuth ==
    /\ commands = <<bootCommand>>
    /\ currentInput = <<>>
    /\ commandHistory = <<>>
    /\ historyIndex = -1
    /\ navigationHistory = <<>>
    /\ activeTimeLog = Null
    /\ currentTheme = "purple"
    /\ pathname = "/auth"
    /\ localStorage = EmptyStore
    /\ queued = [activeTimeLog |-> Null, currentTheme |-> "purple"]
    /\ inflight = <<>>
    /\ phase = "hydrate"
    /\ calls = <<>>
    /\ now = 0
    /\ ev = Ev("mount")
    /\ authMounted

\* What the browser may hold under the key cyberTerminalTheme at page load: nothing,
\* the empty string, a theme, or a string written by something else.
StoredThemes == {Null, Some(""), Some("green"), Some("blue")}

\* A visit with a theme key left in the browser.
InitStored ==
    \E theme \in StoredThemes : InitFrom([EmptyStore EXCEPT !.cyberTerminalTheme = theme])

(* ------------------------------------------------------------------ *)
(* Collaborators                                                       *)
(* ------------------------------------------------------------------ *)

\* A collaborator call as the console issues it: the operation, its string arguments,
\* its numeric argument, and how it ended ("pending" while awaited, then "ok", "error":
\* the client returned { error }, or "throw": the call raised).
call(op, text, num, outcome) == [op |-> op, text |-> text, num |-> num, outcome |-> outcome]

\* error.message of a failed collaborator call
errorMessage == <<"permission denied for table">>

\* Rows a query may answer with (the tables belong to the collaborator).
sampleRow == [id |-> <<"a1b2c3d4", "-e5f6">>, text |-> <<"Ship", SP, "release">>,
              priority |-> <<"high">>, completed |-> FALSE, duration |-> 25,
              type |-> <<"reminder">>, tags |-> << <<"work">> >>]

\* What an awaited collaborator call may resolve to.
Responses(cmd) ==
    {[status |-> "error", rows |-> <<>>], [status |-> "throw", rows |-> <<>>],
     [status |-> "ok", rows |-> <<>>]}
    \cup (IF cmd \in {"todo.list", "time.today", "cal.today", "note.search"}
          THEN {[status |-> "ok", rows |-> <<sampleRow>>]} ELSE {})

(* ------------------------------------------------------------------ *)
(* Helpers of executeCommand                                           *)
(* ------------------------------------------------------------------ *)

\* Math.round(x / d) for a divisor d > 0: the nearest integer, halves upwards.
MathRound(x, d) == (2 * x + d) \div (2 * d)

MinuteMs == 60000

\* Math.round((Date.now() - activeTimeLog.startTime) / 60000)
elapsedMinutes(startTime, t) == MathRound(t - startTime, MinuteMs)

\* String.prototype.substring(0, 8), cutting between atoms
RECURSIVE Substring08(_, _)
Substring08(s, room) ==
    IF s = <<>> \/ Len(Head(s)) > room THEN <<>>
    ELSE <<Head(s)>> \o Substring08(Tail(s), room - Len(Head(s)))

IdPrefixLen == 8
shortId(id) == Substring08(id, IdPrefixLen)

\* parseInt: the digits an input starts with, NaN (Null here) when it starts with none.
digits == [k \in {"5", "90"} |-> IF k = "5" THEN 5 ELSE 90]
parseInt(s) == IF s # <<>> /\ Head(s) \in DOMAIN digits THEN Some(digits[Head(s)]) ELSE Null

\* A date check that accepts every string.
isInvalidDate_Never(dateStr) == FALSE

\* isNaN(new Date(dateStr).getTime()): the strings Date accepts, among those the inputs use.
validDates == {"2025-01-15"}
isInvalidDate(dateStr) == Str(dateStr) \notin validDates

\* format(date, 'yyyy-MM-dd') of the instant t (ms): the number of its calendar day.
formatDate(t) == "day-" \o ToString(t \div 86400000)

\* toUpperCase of a theme or priority name
toUpperCase(a) == CASE a = "green" -> "GREEN" [] a = "purple" -> "PURPLE"
                    [] a = "red" -> "RED" [] a = "black" -> "BLACK"
                    [] a = "low" -> "LOW" [] a = "medium" -> "MEDIUM"
                    [] a = "high" -> "HIGH" [] OTHER -> a

validPriorities == {"low", "medium", "high"}
validThemes == {"green", "purple", "red", "black"}

\* What executeCommand has done when it returns or first suspends: the entry it is
\* about to append (kind "entry"), the continuation it left behind (kind "await"), or a
\* bare return (kind "clear", "reload"); the collaborator calls it issued; the state
\* it set.
\* A frame in which every command empties the Navigation History Stack.
unchanged_DropsStack ==
    [kind |-> "entry", output |-> <<>>, type |-> "info", issued |-> <<>>,
     navigationHistory |-> <<>>, pathname |-> pathname,
     activeTimeLog |-> activeTimeLog, currentTheme |-> currentTheme,
     cont |-> [cmd |-> "", output |-> <<>>, arg |-> <<>>]]

unchanged ==
    [kind |-> "entry", output |-> <<>>, type |-> "info", issued |-> <<>>,
     navigationHistory |-> navigationHistory, pathname |-> pathname,
     activeTimeLog |-> activeTimeLog, currentTheme |-> currentTheme,
     cont |-> [cmd |-> "", output |-> <<>>, arg |-> <<>>]]

entry(type, output) == [unchanged EXCEPT !.type = type, !.output = output]

\* An entry after a collaborator call that is not awaited.
entryAfter(type, output, c) == [entry(type, output) EXCEPT !.issued = <<c>>]

\* Suspension at await on the collaborator call c.
suspend(cmd, output, arg, c) ==
    [unchanged EXCEPT !.kind = "await", !.issued = <<c>>,
                      !.cont = [cmd |-> cmd, output |-> output, arg |-> arg]]

(* ------------------------------------------------------------------ *)
(* executeCommand: the switch over the command name                    *)
(* Output glyphs outside ASCII are transliterated: the check mark is   *)
(* "[ok]", the tree glyphs are "|--" and "+--", the bullet is "*".      *)
(* The toast notifications are display only and not modelled.          *)
(* ------------------------------------------------------------------ *)

helpTexts(helpCommand) ==
    CASE helpCommand = "todo.add" ->
           << <<"todo.add <task> [-p|--priority=low|medium|high]">>,
              <<"Add a new todo item">>, <<"Examples:">>,
              <<"* todo.add 'Complete project' -p high">>,
              <<"* todo.add 'Review code' --priority=medium">> >>
      [] helpCommand = "todo.list" ->
           << <<"todo.list [-p|--priority=low|medium|high]">>,
              <<"List todos, optionally filtered by priority">>, <<"Examples:">>,
              <<"* todo.list">>, <<"* todo.list -p high">> >>
      [] helpCommand = "time.start" ->
           << <<"time.start <activity>">>, <<"Start time tracking for an activity">>,
              <<"Auto-stops previous activity if running">>, <<"Examples:">>,
              <<"* time.start 'Deep work session'">>,
              <<"* time.start 'Meeting with team'">> >>
      [] helpCommand = "nav.dash" ->
           << <<"nav.dash | goto.dashboard">>, <<"Navigate to dashboard page">>,
              <<"Examples:">>, <<"* nav.dash">>, <<"* goto.dashboard">> >>
      [] OTHER -> << <<"No help available for '", helpCommand, "'">> >>

helpOverview ==
    << <<"ENHANCED TERMINAL COMMANDS v3.0:">>, <<>>,
       <<"NAVIGATION:">>,
       <<"|-- nav.dash, goto.dashboard - Dashboard">>,
       <<"|-- nav.todos, goto.tasks - Todo list">>,
       <<"|-- nav.time, goto.timelog - Time tracking">>,
       <<"|-- nav.calendar, goto.calendar - Calendar">>,
       <<"|-- nav.notes, goto.notes - Notes">>,
       <<"+-- nav.back - Go back">>, <<>>,
       <<"TODO MANAGEMENT:">>,
       <<"|-- todo.add <task> [-p high|medium|low]">>,
       <<"|-- todo.list [-p priority]">>,
       <<"|-- todo.complete <id>">>,
       <<"|-- todo.delete <id>">>,
       <<"+-- todo.priority <id> -p <priority>">>, <<>>,
       <<"TIME TRACKING:">>,
       <<"|-- time.start <activity> - Start tracking">>,
       <<"|-- time.stop - Stop current session">>,
       <<"|-- time.status - Show active session">>,
       <<"|-- time.log <activity> <minutes> - Manual entry">>,
       <<"+-- time.today - Today's summary">>, <<>>,
       <<"CALENDAR & NOTES:">>,
       <<"|-- cal.add <event> [-d YYYY-MM-DD]">>,
       <<"|-- cal.today - Today's events">>,
       <<"|-- note.add <title> <content> [-t tags]">>,
       <<"+-- note.search <keyword>">>, <<>>,
       <<"SYSTEM:">>,
       <<"|-- sys.status - System information">>,
       <<"|-- theme.change -[green/purple/red/black]">>,
       <<"|-- history - Command history">>,
       <<"|-- clear - Clear terminal">>,
       <<"+-- help <command> - Detailed help">>, <<>>,
       <<"Use 'help <command>' for detailed usage">> >>

\* case 'help'
help(positional) ==
    entry("success", IF Len(positional) > 0 THEN helpTexts(Str(positional[1]))
                     ELSE helpOverview)

\* A navigation that pushes the view it goes to.
navigateTo_PushesTarget(path, name) ==
    [entryAfter("success", << <<"[ok] Navigated to ", name>> >>,
                call("navigate", << <<path>> >>, 0, "ok"))
       EXCEPT !.navigationHistory = Append(navigationHistory, path),
              !.pathname = path]

\* case 'nav.dash' ... 'goto.notes': push the current path, navigate, report.
navigateTo(path, name) ==
    [entryAfter("success", << <<"[ok] Navigated to ", name>> >>,
                call("navigate", << <<path>> >>, 0, "ok"))
       EXCEPT !.navigationHistory = Append(navigationHistory, pathname),
              !.pathname = path]

\* A nav.back that goes to the dashboard when there is nowhere to go back to.
navBack_NoGuard ==
    LET lastPath == IF Len(navigationHistory) > 0
                    THEN navigationHistory[Len(navigationHistory)] ELSE "/" IN
    [entryAfter("success", << <<"[ok] Navigated back to ", lastPath>> >>,
                call("navigate", << <<lastPath>> >>, 0, "ok"))
       EXCEPT !.navigationHistory = SubSeq(navigationHistory, 1,
                                          Len(navigationHistory) - 1),
              !.pathname = lastPath]

\* case 'nav.back'
navBack ==
    IF Len(navigationHistory) > 0
    THEN LET lastPath == navigationHistory[Len(navigationHistory)] IN
         [entryAfter("success", << <<"[ok] Navigated back to ", lastPath>> >>,
                     call("navigate", << <<lastPath>> >>, 0, "ok"))
            EXCEPT !.navigationHistory = SubSeq(navigationHistory, 1,
                                               Len(navigationHistory) - 1),
                   !.pathname = lastPath]
    ELSE entry("error", << <<"No navigation history available">> >>)

\* case 'todo.add'; oc is how the insert issued by onAddTodo ends (not awaited).
todoAdd(parsed, positional, oc) ==
    IF Len(positional) < 1
    THEN entry("error", << <<"ERROR: Task description required">> >>)
    ELSE LET flag == Or(Or(Get(parsed, "--priority"), Get(parsed, "-p")), Some(<<"medium">>))
             priority == flag[1]
             taskText == StripQuotes(Join(positional))
         IN  IF Str(priority) \in validPriorities
             THEN entryAfter("success",
                             << <<"[ok] Task added: \"">> \o taskText
                                  \o <<"\" (priority: ">> \o priority \o <<")">> >>,
                             call("todos.insert", <<taskText, priority>>, 0, oc))
             ELSE entry("error", << <<"ERROR: Invalid priority. Use low, medium, or high">> >>)

\* case 'todo.list', up to the await of the query
todoList(parsed) ==
    LET priorityFilter == Or(Get(parsed, "--priority"), Get(parsed, "-p")) IN
    suspend("todo.list", <<>>, <<>>,
            call("todos.select", IF Truthy(priorityFilter) THEN <<priorityFilter[1]>> ELSE <<>>,
                 0, "pending"))

\* case 'todo.complete' and case 'todo.delete', up to the await
todoById(cmd, op, positional) ==
    IF Len(positional) < 1
    THEN entry("error", << <<"ERROR: Todo ID required">> >>)
    ELSE suspend(cmd, <<>>, positional[1], call(op, <<positional[1]>>, 0, "pending"))

stoppedLine(timeLog, duration) ==
    <<"[ok] Stopped: \"">> \o timeLog.activity
        \o <<"\" (", ToString(duration), " minutes)">>

startedLine(activity) == <<"[ok] Started tracking: \"">> \o activity \o <<"\"">>

\* case 'time.start': starts at once when no timer runs; otherwise up to the await of
\* onAddTimeLog for the running timer (the new timer is set after the await).
timeStart(positional) ==
    IF Len(positional) < 1
    THEN entry("error", << <<"ERROR: Activity name required">> >>)
    ELSE LET activity == StripQuotes(Join(positional)) IN
         IF activeTimeLog # Null
         THEN LET duration == elapsedMinutes(activeTimeLog[1].startTime, now) IN
              suspend("time.start", <<stoppedLine(activeTimeLog[1], duration)>>, activity,
                      call("time_logs.insert", <<activeTimeLog[1].activity>>, duration,
                           "pending"))
         ELSE [entry("success", <<startedLine(activity)>>)
                 EXCEPT !.activeTimeLog = Some([activity |-> activity, startTime |-> now])]

\* case 'time.stop', up to the await of onAddTimeLog
timeStop ==
    IF activeTimeLog = Null
    THEN entry("error", << <<"No active time tracking session">> >>)
    ELSE LET duration == elapsedMinutes(activeTimeLog[1].startTime, now) IN
         suspend("time.stop", <<stoppedLine(activeTimeLog[1], duration)>>, <<>>,
                 call("time_logs.insert", <<activeTimeLog[1].activity>>, duration, "pending"))

\* case 'time.status'
timeStatus ==
    IF activeTimeLog = Null
    THEN entry("info", << <<"No active time tracking session">> >>)
    ELSE entry("success",
               << <<"ACTIVE TIME TRACKING:">>,
                  <<"|-- Activity: ">> \o activeTimeLog[1].activity,
                  <<"|-- Started: ", ToString(activeTimeLog[1].startTime)>>,
                  <<"+-- Elapsed: ",
                    ToString(elapsedMinutes(activeTimeLog[1].startTime, now)),
                    " minutes">> >>)

\* case 'time.log'; oc is how the insert issued by onAddTimeLog ends (not awaited).
timeLogManual(positional, oc) ==
    IF Len(positional) < 2
    THEN entry("error", << <<"ERROR: Usage: time.log <activity> <duration_minutes>">> >>)
    ELSE LET duration == parseInt(positional[Len(positional)])
             activity == StripQuotes(Join(SubSeq(positional, 1, Len(positional) - 1)))
         IN  IF duration = Null
             THEN entry("error", << <<"ERROR: Duration must be a number">> >>)
             ELSE entryAfter("success",
                             << <<"[ok] Time logged: \"">> \o activity
                                  \o <<"\" - ", ToString(duration[1]), " minutes">> >>,
                             call("time_logs.insert", <<activity>>, duration[1], oc))

\* case 'time.today' and case 'cal.today', up to the await of the query
today(cmd, op) ==
    suspend(cmd, <<>>, <<formatDate(now)>>, call(op, << <<formatDate(now)>> >>, 0, "pending"))

\* case 'cal.add'; oc is how the insert issued by onAddCalendarEvent ends (not awaited).
calAdd(parsed, positional, oc) ==
    IF Len(positional) < 1
    THEN entry("error", << <<"ERROR: Event title required">> >>)
    ELSE LET dateStr == Or(Get(parsed, "--date"), Get(parsed, "-d"))
             title == StripQuotes(Join(positional))
             date == IF Truthy(dateStr) THEN Str(dateStr[1]) ELSE formatDate(now)
         IN  IF Truthy(dateStr) /\ isInvalidDate(dateStr[1])
             THEN entry("error", << <<"ERROR: Invalid date format. Use YYYY-MM-DD">> >>)
             ELSE entryAfter("success",
                             << <<"[ok] Event added: \"">> \o title \o <<"\" on ", date>> >>,
                             call("calendar_events.insert", <<title, <<date>> >>, 0, oc))

\* tagsStr.split(',').map(tag => tag.trim())
RECURSIVE trimEach(_)
trimEach(tags) == IF tags = <<>> THEN <<>> ELSE <<Trim(Head(tags))>> \o trimEach(Tail(tags))

\* tags.join(', ')
RECURSIVE joinTags(_)
joinTags(tags) == IF tags = <<>> THEN <<>>
                  ELSE IF Len(tags) = 1 THEN tags[1]
                  ELSE tags[1] \o <<",", SP>> \o joinTags(Tail(tags))

\* case 'note.add'; oc is how the insert issued by onAddNote ends (not awaited).
noteAdd(parsed, positional, oc) ==
    IF Len(positional) < 2
    THEN entry("error", << <<"ERROR: Usage: note.add <title> <content> [-t tag1,tag2]">> >>)
    ELSE LET tagsStr == Or(Get(parsed, "--tags"), Get(parsed, "-t"))
             tags == IF Truthy(tagsStr) THEN trimEach(Split(tagsStr[1], ",")) ELSE <<>>
             title == StripQuotes(positional[1])
             content == StripQuotes(Join(Tail(positional)))
         IN  entryAfter("success",
                        << <<"[ok] Note created: \"">> \o title \o <<"\"">> >>
                           \o (IF Len(tags) > 0
                               THEN << <<"    Tags: ">> \o joinTags(tags) >> ELSE <<>>),
                        call("notes.insert", <<title, content>> \o tags, 0, oc))

\* case 'note.search', up to the await of the query
noteSearch(positional) ==
    IF Len(positional) < 1
    THEN entry("error", << <<"ERROR: Search keyword required">> >>)
    ELSE suspend("note.search", <<>>, Join(positional),
                 call("notes.select", <<Join(positional)>>, 0, "pending"))

\* getCurrentPageName
getCurrentPageName ==
    CASE pathname \in {"/", "/dashboard"} -> "dashboard"
      [] pathname = "/todos" -> "todos"
      [] pathname = "/timelog" -> "timelog"
      [] pathname = "/calendar" -> "calendar"
      [] pathname = "/notes" -> "notes"
      [] OTHER -> "unknown"

\* case 'sys.status' (the Math.random() percentage is left symbolic)
sysStatus ==
    entry("success",
          << <<"SYSTEM STATUS:">>, <<"|-- Neural Interface: ONLINE">>,
             <<"|-- Productivity Matrix: ACTIVE">>, <<"|-- Database: CONNECTED">>,
             <<"|-- Current Location: ", getCurrentPageName>>,
             <<"|-- Active Time Log: ">>
                 \o (IF activeTimeLog # Null THEN activeTimeLog[1].activity ELSE <<"None">>),
             <<"|-- Memory Usage: ", "<random>", "%">>, <<"+-- Threat Level: MINIMAL">>,
             <<>>, <<"Current Time: ", ToString(now)>> >>)

\* commandHistory.slice(-10)
HistoryWindow == 10
sliceLast(h) == IF Len(h) <= HistoryWindow THEN h
                ELSE SubSeq(h, Len(h) - HistoryWindow + 1, Len(h))

\* The number printed in front of the entry at 0-based index index of the slice.
historyNumber(h, index) == Len(h) - HistoryWindow + index + 1

\* case 'history': commandHistory is the one of the render the handler closed over,
\* which does not hold the command being executed.
history ==
    entry("success",
          << <<"COMMAND HISTORY:">>, <<>> >>
             \o [i \in 1..Len(sliceLast(commandHistory)) |->
                   <<ToString(historyNumber(commandHistory, i - 1)), ". ">>
                       \o sliceLast(commandHistory)[i]])

\* A theme.change that sets the theme before it has validated it.
themeChange_SetsFirst(positional) ==
    IF Len(positional) < 1 THEN entry("error", << <<"ERROR: Theme required.">> >>)
    ELSE LET themeArg == positional[1]
             theme == Str(IF StartsWith(themeArg, DASH) THEN Tail(themeArg) ELSE themeArg)
         IN  [entry(IF theme \in validThemes THEN "success" ELSE "error",
                    << <<"ERROR: Invalid theme '", theme, "'">>,
                       <<"Available themes: green, purple, red, black">> >>)
                EXCEPT !.currentTheme = theme]

\* case 'theme.change'
themeChange(positional) ==
    IF Len(positional) < 1
    THEN entry("error",
               << <<"ERROR: Theme required. Usage: theme.change -[green/purple/red/black]">>,
                  <<>>, <<"Available themes:">>,
                  <<"|-- green - Matrix-style green theme">>,
                  <<"|-- purple - Cyberpunk purple theme (default)">>,
                  <<"|-- red - Alert red theme">>,
                  <<"+-- black - Monochrome black/white theme">> >>)
    ELSE LET themeArg == positional[1]
             theme == Str(IF StartsWith(themeArg, DASH) THEN Tail(themeArg) ELSE themeArg)
         IN  IF theme \in validThemes
             THEN [entry("success",
                         << <<"[ok] Theme changed to ", toUpperCase(theme)>>,
                            <<"Color scheme updated successfully">>,
                            <<"Theme persisted to local storage">> >>)
                     EXCEPT !.currentTheme = theme]
             ELSE entry("error",
                        << <<"ERROR: Invalid theme '", theme, "'">>,
                           <<"Available themes: green, purple, red, black">> >>)

\* case 'hack.time'
hackTime ==
    entry("success",
          << <<"> Accessing temporal matrix...">>,
             <<"> Current timestamp: ", ToString(now)>>,
             <<"> Local time: ", ToString(now)>>,
             <<"> Time zone: ", "<resolved>">>,
             <<"> Active session: ">>
                 \o (IF activeTimeLog # Null THEN activeTimeLog[1].activity ELSE <<"None">>) >>)

\* A default case that answers without classifying the entry as an error.
notRecognized_Info(command) ==
    entry("info", << <<"Command '", command, "' not recognized.">> >>)

\* default
notRecognized(command) ==
    entry("error",
          << <<"Command '", command, "' not recognized.">>,
             <<"Type 'help' for available commands.">>,
             <<"Use 'help <command>' for detailed usage.">> >>)

\* executeCommand from the non-empty trimmed input to its return or its first await.
executeCommand(trimmedInput, oc) ==
    LET args == Split(trimmedInput, SP)
        command == Str(ToLowerCase(args[1]))
        pa == parseArgs(Tail(args))
        parsed == pa.parsed
        positional == pa.positional
    IN  CASE command = "help" -> help(positional)
          [] command \in {"nav.dash", "goto.dashboard"} -> navigateTo("/dashboard", "dashboard")
          [] command \in {"nav.todos", "goto.tasks"} -> navigateTo("/todos", "todos")
          [] command \in {"nav.time", "goto.timelog"} -> navigateTo("/timelog", "time log")
          [] command \in {"nav.calendar", "goto.calendar"} -> navigateTo("/calendar", "calendar")
          [] command \in {"nav.notes", "goto.notes"} -> navigateTo("/notes", "notes")
          [] command = "nav.back" -> navBack
          [] command \in {"nav.refresh", "data.refresh"} -> [unchanged EXCEPT !.kind = "reload"]
          [] command = "todo.add" -> todoAdd(parsed, positional, oc)
          [] command = "todo.list" -> todoList(parsed)
          [] command = "todo.complete" -> todoById("todo.complete", "todos.update", positional)
          [] command = "todo.delete" -> todoById("todo.delete", "todos.delete", positional)
          [] command = "time.start" -> timeStart(positional)
          [] command = "time.stop" -> timeStop
          [] command = "time.status" -> timeStatus
          [] command = "time.log" -> timeLogManual(positional, oc)
          [] command = "time.today" -> today("time.today", "time_logs.select")
          [] command = "cal.add" -> calAdd(parsed, positional, oc)
          [] command = "cal.today" -> today("cal.today", "calendar_events.select")
          [] command = "note.add" -> noteAdd(parsed, positional, oc)
          [] command = "note.search" -> noteSearch(positional)
          [] command = "sys.status" -> sysStatus
          [] command = "history" -> history
          [] command = "clear" -> [unchanged EXCEPT !.kind = "clear"]
          [] command = "theme.change" -> themeChange(positional)
          [] command = "hack.time" -> hackTime
          [] OTHER -> notRecognized(command)

(* ------------------------------------------------------------------ *)
(* executeCommand after its await                                      *)
(* ------------------------------------------------------------------ *)

resumed(type, output) == [type |-> type, output |-> output, activeTimeLog |-> activeTimeLog]

failed(r, thrownText) ==
    IF r.status = "error" THEN resumed("error", << <<"ERROR: ">> \o errorMessage >>)
    ELSE resumed("error", << <<thrownText>> >>)

RECURSIVE sumDuration(_)
sumDuration(rows) == IF rows = <<>> THEN 0 ELSE Head(rows).duration + sumDuration(Tail(rows))

\* logs.slice(0, 5)
RecentSessions == 5
firstRows(rows) == IF Len(rows) <= RecentSessions THEN rows ELSE SubSeq(rows, 1, RecentSessions)

todoLine(rows, i) ==
    <<ToString(i), ". ", IF rows[i].completed THEN "[done]" ELSE "[open]", " [",
      toUpperCase(Str(rows[i].priority)), "] ">> \o rows[i].text
        \o <<" (ID: ">> \o shortId(rows[i].id) \o <<")">>

\* notes.forEach: a line per note, and a line of its tags when it has any
RECURSIVE noteLines(_, _)
noteLines(rows, i) ==
    IF i > Len(rows) THEN <<>>
    ELSE << <<ToString(i), ". ">> \o rows[i].text
              \o <<" (ID: ">> \o shortId(rows[i].id) \o <<")">> >>
         \o (IF Len(rows[i].tags) > 0
             THEN << <<"    Tags: ">> \o joinTags(rows[i].tags) >> ELSE <<>>)
         \o noteLines(rows, i + 1)

\* A continuation in which a time.start leaves the Active Timer as it finds it.
resumeCommand_KeepsTimer(cont, r) ==
    IF cont.cmd = "time.start"
    THEN resumed("success", cont.output \o <<startedLine(cont.arg)>>)
    ELSE [resumed("success", cont.output) EXCEPT !.activeTimeLog = Null]

\* The rest of executeCommand once the awaited call has ended as r: what is appended to
\* the Transcript and the active time log it sets.  handleAddTimeLog catches every
\* failure of its insert (it shows a toast), so 'time.start' and 'time.stop' go on the
\* same way however the insert ended.
resumeCommand(cont, r) ==
    CASE cont.cmd = "time.start" ->
           [resumed("success", cont.output \o <<startedLine(cont.arg)>>)
              EXCEPT !.activeTimeLog = Some([activity |-> cont.arg, startTime |-> now])]
      [] cont.cmd = "time.stop" ->
           [resumed("success", cont.output) EXCEPT !.activeTimeLog = Null]
      [] cont.cmd = "todo.list" ->
           IF r.status # "ok" THEN failed(r, "ERROR: Failed to fetch todos")
           ELSE IF Len(r.rows) = 0 THEN resumed("info", << <<"No todos found">> >>)
           ELSE resumed("success",
                        << <<"Found ", ToString(Len(r.rows)), " todo(s):">>, <<>> >>
                           \o [i \in 1..Len(r.rows) |-> todoLine(r.rows, i)])
      [] cont.cmd = "todo.complete" ->
           IF r.status # "ok" THEN failed(r, "ERROR: Failed to complete todo")
           ELSE resumed("success",
                        << <<"[ok] Todo ">> \o shortId(cont.arg) \o <<" marked as completed">> >>)
      [] cont.cmd = "todo.delete" ->
           IF r.status # "ok" THEN failed(r, "ERROR: Failed to delete todo")
           ELSE resumed("success", << <<"[ok] Todo ">> \o shortId(cont.arg) \o <<" deleted">> >>)
      [] cont.cmd = "time.today" ->
           IF r.status # "ok" THEN failed(r, "ERROR: Failed to fetch time logs")
           ELSE LET totalTime == sumDuration(r.rows)
                    tenths == MathRound(totalTime * 10, 60)
                IN  resumed("success",
                            << <<"TODAY'S TIME SUMMARY (">> \o cont.arg \o <<"):">>,
                               <<"|-- Total time: ", ToString(totalTime), " minutes (",
                                 ToString(tenths \div 10), ".", ToString(tenths % 10), "h)">>,
                               <<"|-- Sessions: ", ToString(Len(r.rows))>>, <<>> >>
                               \o (IF Len(r.rows) > 0
                                   THEN << <<"Recent sessions:">> >>
                                        \o [i \in 1..Len(firstRows(r.rows)) |->
                                              <<ToString(i), ". ">> \o r.rows[i].text
                                                \o <<" - ", ToString(r.rows[i].duration), "m">>]
                                   ELSE <<>>))
      [] cont.cmd = "cal.today" ->
           IF r.status # "ok" THEN failed(r, "ERROR: Failed to fetch calendar events")
           ELSE resumed("success",
                        << <<"TODAY'S EVENTS (">> \o cont.arg \o <<"):">>, <<>> >>
                           \o (IF Len(r.rows) = 0
                               THEN << <<"No events scheduled for today">> >>
                               ELSE [i \in 1..Len(r.rows) |->
                                       <<ToString(i), ". ">> \o r.rows[i].text
                                         \o <<" (">> \o r.rows[i].type \o <<")">>]))
      [] cont.cmd = "note.search" ->
           IF r.status # "ok" THEN failed(r, "ERROR: Failed to search notes")
           ELSE resumed("success",
                        << <<"Found ", ToString(Len(r.rows)), " note(s) matching \"">>
                             \o cont.arg \o <<"\":">>, <<>> >>
                           \o noteLines(r.rows, 1))

(* ------------------------------------------------------------------ *)
(* Actions                                                             *)
(* ------------------------------------------------------------------ *)

\* An entry whose output continues the output of the entry before it.
newCommand_Mixed(input, type, output) ==
    [input |-> input, timestamp |-> now, type |-> type,
     output |-> (IF commands = <<>> THEN <<>> ELSE commands[Len(commands)].output)
                   \o output]

\* const newCommand: Command = { input: trimmedInput, output, timestamp: new Date(), type }
newCommand(input, type, output) ==
    [input |-> input, output |-> output, timestamp |-> now, type |-> type]

\* setCommandHistory(prev => [...prev, trimmedInput])
pushHistory(prev, trimmedInput) == Append(prev, trimmedInput)

\* An append that keeps the new entry only.
appendCommand_Replace(prev, c) == <<c>>

\* setCommands(prev => [...prev, newCommand])
appendCommand(prev, c) == Append(prev, c)

\* The save effects of the render that follows a state change: each runs when its
\* dependency changed.
afterRender(store, timeLog, theme) ==
    LET s1 == IF timeLog # activeTimeLog THEN saveTimeLogEffect(store, timeLog) ELSE store
    IN  IF theme # currentTheme THEN saveThemeEffect(s1, theme) ELSE s1

\* An onChange that also leaves the history it was browsing.
Type_ResetsCursor(line) ==
    /\ UNCHANGED authVars
    /\ phase = "ready"
    /\ currentInput # line
    /\ currentInput' = line
    /\ historyIndex' = -1
    /\ ev' = Ev("type")
    /\ UNCHANGED <<commands, commandHistory, navigationHistory, activeTimeLog,
                   currentTheme, pathname, localStorage, inflight, queued, phase, calls, now>>

\* onChange of the input field: setCurrentInput(e.target.value)
Type(line) ==
    /\ UNCHANGED authVars
    /\ phase = "ready"
    /\ currentInput # line
    /\ currentInput' = line
    /\ ev' = Ev("type")
    /\ UNCHANGED <<commands, commandHistory, historyIndex, navigationHistory, activeTimeLog,
                   currentTheme, pathname, localStorage, inflight, queued, phase, calls, now>>

\* handleKeyDown, key 'Enter': executeCommand(currentInput) up to its return or its
\* first await, and the render that follows.  Outcomes are the ways a collaborator
\* call that is not awaited may end; maxHistory bounds the commands per page load.
\* A suspended invocation keeps the activeTimeLog of the render it closed over (timer).
Enter(Outcomes, maxHistory) ==
    /\ UNCHANGED authVars
    /\ phase = "ready"
    /\ ev' = Ev("enter")
    /\ UNCHANGED <<queued, now>>
    /\ LET trimmedInput == Trim(currentInput) IN
       IF trimmedInput = <<>>
       THEN UNCHANGED <<commands, currentInput, commandHistory, historyIndex,
                        navigationHistory, activeTimeLog, currentTheme, pathname,
                        localStorage, inflight, phase, calls>>
       ELSE /\ Len(commandHistory) < maxHistory
            /\ \E oc \in Outcomes :
                 LET eff == executeCommand(trimmedInput, oc) IN
                 /\ Len(calls) + Len(eff.issued) <= MaxCalls
                 /\ commandHistory' = pushHistory(commandHistory, trimmedInput)
                 /\ historyIndex' = -1
                 /\ calls' = calls \o eff.issued
                 /\ navigationHistory' = eff.navigationHistory
                 /\ pathname' = eff.pathname
                 /\ activeTimeLog' = eff.activeTimeLog
                 /\ currentTheme' = eff.currentTheme
                 /\ localStorage' = afterRender(localStorage, eff.activeTimeLog,
                                                eff.currentTheme)
                 /\ commands' = CASE eff.kind = "entry" ->
                                       appendCommand(commands,
                                           newCommand(trimmedInput, eff.type, eff.output))
                                  [] eff.kind = "clear" -> <<>>
                                  [] OTHER -> commands
                 /\ currentInput' = IF eff.kind \in {"entry", "clear"} THEN <<>>
                                    ELSE currentInput
                 /\ inflight' = IF eff.kind = "await"
                                THEN Append(inflight,
                                            [input |-> trimmedInput, cmd |-> eff.cont.cmd,
                                             output |-> eff.cont.output,
                                             arg |-> eff.cont.arg,
                                             call |-> Len(calls) + 1,
                                             timer |-> activeTimeLog])
                                ELSE inflight
                 /\ phase' = IF eff.kind = "reload" THEN "reloading" ELSE phase

\* The awaited collaborator call of the k-th suspended executeCommand ends as r: the
\* rest of executeCommand runs, and the render that follows.
Resume(k, r) ==
    /\ UNCHANGED authVars
    /\ phase = "ready"
    /\ k \in 1..Len(inflight)
    /\ r \in Responses(inflight[k].cmd)
    /\ LET cont == inflight[k]
           res == resumeCommand(cont, r)
       IN  /\ commands' = appendCommand(commands,
                                       newCommand(cont.input, res.type, res.output))
           /\ currentInput' = <<>>
           /\ activeTimeLog' = res.activeTimeLog
           /\ localStorage' = afterRender(localStorage, res.activeTimeLog, currentTheme)
           /\ calls' = [calls EXCEPT ![cont.call].outcome = r.status]
           /\ inflight' = SubSeq(inflight, 1, k - 1) \o SubSeq(inflight, k + 1, Len(inflight))
    /\ ev' = Ev("resume")
    /\ UNCHANGED <<commandHistory, historyIndex, navigationHistory, currentTheme, pathname,
                   queued, phase, now>>

\* Math.max
MathMax(a, b) == IF a >= b THEN a ELSE b

\* A recall-previous that decrements from any cursor, the fresh one included.
arrowUp_NoFreshCase(h, index, input) ==
    IF Len(h) > 0
    THEN LET newIndex == MathMax(0, index - 1)
         IN  [historyIndex |-> newIndex, currentInput |-> h[newIndex + 1]]
    ELSE [historyIndex |-> index, currentInput |-> input]

\* A recall-next that leaves the history one press late.
arrowDown_OffByOne(h, index, input) ==
    IF index # -1
    THEN LET newIndex == index + 1
         IN  IF newIndex > Len(h)
             THEN [historyIndex |-> -1, currentInput |-> <<>>]
             ELSE [historyIndex |-> newIndex,
                   currentInput |-> IF newIndex < Len(h) THEN h[newIndex + 1] ELSE input]
    ELSE [historyIndex |-> index, currentInput |-> input]

\* handleKeyDown, key 'ArrowUp': the cursor and the input it sets (index 0-based as in
\* the source, history 1-based as TLA+ sequences are).
arrowUp(h, index, input) ==
    IF Len(h) > 0
    THEN LET newIndex == IF index = -1 THEN Len(h) - 1 ELSE MathMax(0, index - 1)
         IN  [historyIndex |-> newIndex, currentInput |-> h[newIndex + 1]]
    ELSE [historyIndex |-> index, currentInput |-> input]

\* handleKeyDown, key 'ArrowDown'
arrowDown(h, index, input) ==
    IF index # -1
    THEN LET newIndex == index + 1
         IN  IF newIndex >= Len(h)
             THEN [historyIndex |-> -1, currentInput |-> <<>>]
             ELSE [historyIndex |-> newIndex, currentInput |-> h[newIndex + 1]]
    ELSE [historyIndex |-> index, currentInput |-> input]

ArrowUp ==
    /\ UNCHANGED authVars
    /\ phase = "ready"
    /\ historyIndex' = arrowUp(commandHistory, historyIndex, currentInput).historyIndex
    /\ currentInput' = arrowUp(commandHistory, historyIndex, currentInput).currentInput
    /\ ev' = [op |-> "up", downs |-> 0,
              ups |-> IF historyIndex = -1 /\ Len(commandHistory) > 0 THEN 1
                      ELSE IF ev.op = "up" /\ ev.ups > 0 /\ ev.ups < Len(commandHistory)
                      THEN ev.ups + 1 ELSE 0]
    /\ UNCHANGED <<commands, commandHistory, navigationHistory, activeTimeLog, currentTheme,
                   pathname, localStorage, inflight, queued, phase, calls, now>>

ArrowDown ==
    /\ UNCHANGED authVars
    /\ phase = "ready"
    /\ historyIndex' = arrowDown(commandHistory, historyIndex, currentInput).historyIndex
    /\ currentInput' = arrowDown(commandHistory, historyIndex, currentInput).currentInput
    /\ ev' = IF ev.op \in {"up", "down"} /\ ev.ups > 0 /\ ev.downs < ev.ups
             THEN [op |-> "down", ups |-> ev.ups, downs |-> ev.downs + 1]
             ELSE Ev("down")
    /\ UNCHANGED <<commands, commandHistory, navigationHistory, activeTimeLog, currentTheme,
                   pathname, localStorage, inflight, queued, phase, calls, now>>

\* Time passes.
Tick ==
    /\ UNCHANGED authVars
    /\ now < MaxTicks * TickMs
    /\ now' = now + TickMs
    /\ ev' = Ev("tick")
    /\ UNCHANGED <<commands, currentInput, commandHistory, historyIndex, navigationHistory,
                   activeTimeLog, currentTheme, pathname, localStorage, inflight, queued,
                   phase, calls>>

\* The page is loaded anew (window.location.reload() of 'nav.refresh' and
\* 'data.refresh', or the browser's own reload): every useState starts from its
\* initial value, suspended commands are gone, and the component mounts.
Reload ==
    /\ UNCHANGED authVars
    /\ commands' = <<[bootCommand EXCEPT !.timestamp = now]>>
    /\ currentInput' = <<>>
    /\ commandHistory' = <<>>
    /\ historyIndex' = -1
    /\ navigationHistory' = <<>>
    /\ activeTimeLog' = Null
    /\ currentTheme' = "purple"
    /\ inflight' = <<>>
    /\ queued' = mount(localStorage).queued
    /\ localStorage' = mount(localStorage).localStorage
    /\ phase' = "hydrate"
    /\ ev' = Ev("reload")
    /\ UNCHANGED <<pathname, calls, now>>

\* The render after the mount effects: the queued updates become the state and the
\* save effects run on it.
Rerender ==
    /\ UNCHANGED authVars
    /\ phase = "hydrate"
    /\ LET timeLog == IF queued.activeTimeLog # Null THEN queued.activeTimeLog[1]
                      ELSE activeTimeLog
       IN  /\ activeTimeLog' = timeLog
           /\ currentTheme' = queued.currentTheme
           /\ localStorage' = afterRender(localStorage, timeLog, queued.currentTheme)
           /\ queued' = [activeTimeLog |-> Null, currentTheme |-> queued.currentTheme]
    /\ phase' = "ready"
    /\ ev' = Ev("render")
    /\ UNCHANGED <<commands, currentInput, commandHistory, historyIndex, navigationHistory,
                   pathname, inflight, calls, now>>

(* ------------------------------------------------------------------ *)
(* TerminalAuthPage: the authentication terminal shown at /auth        *)
(* ------------------------------------------------------------------ *)

\* Lines the authentication terminal may hold.
MaxLines == 13

\* addLine: setLines(prev => [...prev, { type, text, timestamp: new Date() }])
addLine(ls, type, text) == Append(ls, TerminalLine(type, text, Some(now)))

\* The place of the first character at or after i that is not white space.
RECURSIVE skipSpaces(_, _)
skipSpaces(s, i) == IF i <= Len(s) /\ s[i] = SP THEN skipSpaces(s, i + 1) ELSE i

\* Whether email may end at e: white space follows, then -p= and a password.
passwordAfter(s, e) ==
    LET q == skipSpaces(s, e + 1) IN
    /\ q > e + 1
    /\ q + 3 <= Len(s)
    /\ SubSeq(s, q, q + 2) = <<DASH, "p", EQ>>

\* trimmed.match(/^login\s+-u=(.+?)\s+-p=(.+)$/): the email (the shortest that lets
\* the rest match) and the password, or null.
loginMatch(trimmed) ==
    LET a == skipSpaces(trimmed, 2)
        ends == {e \in (a + 3)..Len(trimmed) : passwordAfter(trimmed, e)}
    IN  IF /\ trimmed # <<>> /\ trimmed[1] = "login"
           /\ a > 2 /\ a + 3 <= Len(trimmed)
           /\ SubSeq(trimmed, a, a + 2) = <<DASH, "u", EQ>>
           /\ ends # {}
        THEN LET e == CHOOSE x \in ends : \A y \in ends : x <= y
                 q == skipSpaces(trimmed, e + 1)
             IN  Some([email |-> SubSeq(trimmed, a + 3, e),
                       password |-> SubSeq(trimmed, q + 3, Len(trimmed))])
        ELSE Null

\* What parseCommand does: the lines it adds, whether it empties the terminal, where it
\* navigates, the login call it starts.
said(ls) == [added |-> ls, clear |-> FALSE, navigate |-> Null, attempt |-> Null]

\* handleGoogleLogin and handleEmailLogin up to their await.
handleGoogleLogin ==
    [said(<< <<"output", <<"Initiating Google OAuth...">> >> >>)
       EXCEPT !.attempt = Some([call |-> "signInWithOAuth", email |-> <<>>])]

handleEmailLogin(email, password) ==
    [said(<< <<"output", <<"Authenticating user: ">> \o email>> >>)
       EXCEPT !.attempt = Some([call |-> "signInWithPassword", email |-> email])]

\* parseCommand
parseCommand(command) ==
    LET trimmed == Trim(command) IN
    IF trimmed = <<"help">>
    THEN said(<< <<"output", <<"Available commands:">> >>,
                 <<"output", <<"  login -g                     : Google OAuth login">> >>,
                 <<"output", <<"  login -u=email -p=password   : Email/password login">> >>,
                 <<"output", <<"  sign-up                      : Create new account">> >>,
                 <<"output", <<"  clear                        : Clear terminal">> >> >>)
    ELSE IF trimmed = <<"clear">>
    THEN [said(<<>>) EXCEPT !.clear = TRUE]
    ELSE IF trimmed = <<"sign", DASH, "up">>
    THEN [said(<< <<"output", <<"Redirecting to sign-up page...">> >> >>)
            EXCEPT !.navigate = Some("/auth/signup")]
    ELSE IF trimmed = <<"login", SP, DASH, "g">>
    THEN handleGoogleLogin
    ELSE IF loginMatch(trimmed) # Null
    THEN handleEmailLogin(loginMatch(trimmed)[1].email, loginMatch(trimmed)[1].password)
    ELSE IF trimmed[1] = "login"
    THEN said(<< <<"error", <<"Invalid login syntax. Use:">> >>,
                 <<"error", <<"  login -g                     : Google OAuth">> >>,
                 <<"error", <<"  login -u=email -p=password   : Email/password">> >> >>)
    ELSE said(<< <<"error", <<"Unknown command: ">> \o trimmed>>,
                 <<"error", <<"Type \"help\" for available commands">> >> >>)

\* The lines ls with each of added appended by addLine.
RECURSIVE addLines(_, _)
addLines(ls, added) ==
    IF added = <<>> THEN ls
    ELSE addLines(addLine(ls, added[1][1], added[1][2]), Tail(added))

\* handleSubmit: if (isProcessing || !currentCommand.trim()) return
ignored(processing, command) == processing \/ Trim(command) = <<>>

\* A login handler that leaves the flag set when the call fails.
settled_NoFinally(attempt, outcome) ==
    IF outcome = "ok"
    THEN [type |-> "output",
          text |-> IF attempt.call = "signInWithOAuth" THEN <<"Redirecting to Google...">>
                   ELSE <<"Login successful! Redirecting...">>,
          isProcessing |-> FALSE]
    ELSE [type |-> "error", text |-> <<"Login failed: ">> \o errorMessage,
          isProcessing |-> TRUE]

\* handleGoogleLogin and handleEmailLogin after their await: the line of the try or
\* of the catch block, and the flag as the finally block sets it.
settled(attempt, outcome) ==
    [type |-> IF outcome = "ok" THEN "output" ELSE "error",
     text |-> IF outcome = "ok"
              THEN (IF attempt.call = "signInWithOAuth" THEN <<"Redirecting to Google...">>
                    ELSE <<"Login successful! Redirecting...">>)
              ELSE (IF attempt.call = "signInWithOAuth" THEN <<"Authentication failed: ">>
                    ELSE <<"Login failed: ">>) \o errorMessage,
     isProcessing |-> FALSE]

\* onChange of the input of the authentication terminal (disabled while processing).
authChange(line) ==
    /\ pathname = "/auth"
    /\ ~isProcessing
    /\ currentCommand # line
    /\ currentCommand' = line
    /\ ev' = Ev("auth.type")
    /\ UNCHANGED <<lines, isProcessing, attempts, pathname, consoleVars>>

\* handleSubmit, parseCommand and the login handler it starts, up to the await.
handleSubmit ==
    /\ pathname = "/auth"
    /\ UNCHANGED consoleVars
    /\ IF ignored(isProcessing, currentCommand)
       THEN /\ ev' = Ev("auth.ignored")
            /\ UNCHANGED <<authVars, pathname>>
       ELSE LET eff == parseCommand(currentCommand)
                shown == addLines(addLine(lines, "command", <<"$ ">> \o currentCommand),
                                  eff.added)
            IN  /\ Len(shown) + Len(eff.attempt) <= MaxLines
                /\ lines' = IF eff.clear THEN <<>> ELSE shown
                /\ currentCommand' = <<>>
                /\ isProcessing' = (eff.attempt # Null \/ isProcessing)
                /\ attempts' = attempts \o eff.attempt
                /\ pathname' = IF eff.navigate # Null THEN eff.navigate[1] ELSE pathname
                /\ ev' = Ev("auth.submit")

\* The awaited login call of the k-th attempt ends as outcome ("ok", or "error": the
\* client returned { error }, or "throw": the call raised): catch, finally.
settle(k, outcome) ==
    /\ pathname = "/auth"
    /\ k \in 1..Len(attempts)
    /\ LET res == settled(attempts[k], outcome) IN
       /\ lines' = addLine(lines, res.type, res.text)
       /\ isProcessing' = res.isProcessing
    /\ attempts' = SubSeq(attempts, 1, k - 1) \o SubSeq(attempts, k + 1, Len(attempts))
    /\ ev' = Ev("auth.settle")
    /\ UNCHANGED <<currentCommand, pathname, consoleVars>>

(* ------------------------------------------------------------------ *)
(* Inputs and specifications                                           *)
(* ------------------------------------------------------------------ *)

\* Every way an awaited call may end, and those that end in one of Outcomes.
AllResponses == UNION {Responses(cmd) : cmd \in {"", "todo.list"}}
ResponsesIn(Outcomes) == {r \in AllResponses : r.status \in Outcomes}

\* Time tracking: starting, replacing and stopping timers while time passes.
TimerInputs ==
    { <<"time.start", SP, "write">>, <<"time.start", SP, "read">>, <<"time.stop">> }

NextTimer ==
    \/ \E line \in TimerInputs : Type(line)
    \/ Enter({"ok"}, MaxHistory)
    \/ \E k \in 1..MaxHistory : \E r \in ResponsesIn({"ok"}) : Resume(k, r)
    \/ Tick
    \/ Rerender

SpecTimer == Init /\ [][NextTimer]_vars

\* Persistence of the session: timers started and stopped, pages reloaded.
ReloadInputs == { <<"time.start", SP, "write">>, <<"time.stop">>, <<"nav.refresh">> }

NextReload ==
    \/ \E line \in ReloadInputs : Type(line)
    \/ Enter({"ok"}, MaxCommands)
    \/ \E k \in 1..MaxCommands : \E r \in ResponsesIn({"ok"}) : Resume(k, r)
    \/ Tick
    \/ Reload
    \/ Rerender

SpecReload == Init /\ [][NextReload]_vars

\* Recall navigation over the command history.
RecallInputs == { <<"time.status">>, <<"history">>, <<"foo", SP>> }

NextRecall ==
    \/ \E line \in RecallInputs : Type(line)
    \/ Enter({"ok"}, MaxHistory)
    \/ ArrowUp
    \/ ArrowDown
    \/ Rerender

SpecRecall == Init /\ [][NextRecall]_vars

\* Submission: blank lines, commands of every way of returning, recall in between.
SubmitInputs ==
    { <<SP, SP>>, <<SP, "clear">>, <<"nav.refresh">>, <<"foo", SP>>, <<"todo.list">>,
      <<"HELP">> }

NextSubmit ==
    \/ \E line \in SubmitInputs : Type(line)
    \/ Enter({"ok"}, MaxCommands)
    \/ \E k \in 1..MaxCommands : \E r \in ResponsesIn({"ok", "error"}) : Resume(k, r)
    \/ ArrowUp
    \/ Reload
    \/ Rerender

SpecSubmit == Init /\ [][NextSubmit]_vars

\* Collaborator calls that succeed, return an error or raise.
FailureInputs ==
    { <<"todo.add", SP, "x">>, <<"time.log", SP, "x", SP, "5">>, <<"cal.add", SP, "x">>,
      <<"note.add", SP, "t", SP, "c">>, <<"todo.list">>,
      <<"todo.complete", SP, "a1b2c3d4">>, <<"todo.delete", SP, "a1b2c3d4">>,
      <<"time.start", SP, "write">>, <<"time.stop">>, <<"clear">>, <<"nav.refresh">>,
      <<"foo">> }

AllOutcomes == {"ok", "error", "throw"}

NextFailures ==
    \/ \E line \in FailureInputs : Type(line)
    \/ Enter(AllOutcomes, MaxCommands)
    \/ \E k \in 1..MaxCommands : \E r \in ResponsesIn(AllOutcomes) : Resume(k, r)
    \/ Rerender

SpecFailures == Init /\ [][NextFailures]_vars

\* Malformed invocations, after commands that set the session state.
ParseInputs ==
    { <<"todo.add">>, <<"todo.add", SP, DASH, "p", SP, "high">>,
      <<"todo.add", SP, "x", SP, DASH, "p", SP, "urgent">>,
      <<"todo.add", SP, "x", SP, DASH, DASH, "priority", EQ, "urgent">>,
      <<"todo.complete">>, <<"todo.delete">>,
      <<"time.start">>, <<"time.log", SP, "x">>, <<"time.log", SP, "x", SP, "soon">>,
      <<"cal.add">>, <<"cal.add", SP, "x", SP, DASH, "d", SP, "someday">>,
      <<"note.add", SP, "t">>, <<"note.search">>,
      <<"theme.change">>, <<"theme.change", SP, "bogus">>,
      <<"time.start", SP, "write">>, <<"nav.todos">>, <<"theme.change", SP, "green">>,
      <<"time.log", SP, "x", SP, "5">>, <<"time.log", SP, "x", SP, "5", "x">> }

NextParse ==
    \/ \E line \in ParseInputs : Type(line)
    \/ Enter({"ok"}, MaxCommands)
    \/ Rerender

SpecParse == Init /\ [][NextParse]_vars

\* Theme changes, valid and not, across reloads.
ThemeInputs ==
    { <<"theme.change", SP, "purple">>, <<"theme.change", SP, "bogus">>,
      <<"theme.change", SP, "green">>, <<"theme.change">>,
      <<"theme.change", SP, DASH, "red">> }

NextTheme ==
    \/ \E line \in ThemeInputs : Type(line)
    \/ Enter({"ok"}, MaxHistory)
    \/ Reload
    \/ Rerender

SpecTheme == Init /\ [][NextTheme]_vars

\* Adding tasks: the three ways of giving a priority, none, quotes, flag first.
TodoAddInputs ==
    { <<"todo.add", SP, SQUOTE, "Ship", SP, "release", SQUOTE, SP, DASH, "p", SP, "high">>,
      <<"todo.add", SP, "x", SP, DASH, DASH, "priority", EQ, "low">>,
      <<"todo.add", SP, "x", SP, DASH, DASH, "priority", SP, "medium">>,
      <<"todo.add", SP, DQUOTE, "x", DQUOTE>>,
      <<"todo.add", SP, DASH, "p", SP, "low", SP, "buy", SP, "milk">>,
      <<"todo.add", SP, "a", SP, SP, "b", SP, DASH, DASH, "priority", EQ, "high">>,
      <<"todo.add", SP, DASH, "p", SP, "high">>,
      <<"todo.add", SP, "x", SP, DASH, "p", SP, "urgent">> }

NextTodoAdd ==
    \/ \E line \in TodoAddInputs : Type(line)
    \/ Enter({"ok", "error"}, MaxCommands)
    \/ Rerender

SpecTodoAdd == Init /\ [][NextTodoAdd]_vars

\* Help, names that are no command, and a todo.add without text, in a session that
\* has a timer, a theme and a view of its own.
HelpInputs ==
    { <<"help">>, <<"unknowncmd">>, <<"todo.priority", SP, "1", SP, DASH, "p", SP, "high">>,
      <<"todo.add">>, <<"time.start", SP, "write">>, <<"theme.change", SP, "green">>,
      <<"nav.todos">> }

NextHelp ==
    \/ \E line \in HelpInputs : Type(line)
    \/ Enter({"ok"}, MaxHistory)
    \/ Rerender

SpecHelp == Init /\ [][NextHelp]_vars

\* Commands that await a collaborator, submitted while others are still waiting.
OverlapInputs ==
    { <<"todo.list">>, <<"note.search", SP, "x">>, <<"help">>, <<"time.status">> }

NextOverlap ==
    \/ \E line \in OverlapInputs : Type(line)
    \/ Enter({"ok"}, MaxHistory)
    \/ \E k \in 1..MaxHistory : \E r \in ResponsesIn({"ok", "error"}) : Resume(k, r)
    \/ Rerender

SpecOverlap == Init /\ [][NextOverlap]_vars

\* Navigation between the views and back, across reloads.
NavInputs == { <<"nav.todos">>, <<"goto.notes">>, <<"nav.back">> }

NextNav ==
    \/ \E line \in NavInputs : Type(line)
    \/ Enter({"ok"}, MaxHistory)
    \/ Reload
    \/ Rerender

SpecNav == Init /\ [][NextNav]_vars

\* Every navigation command and nav.back, within one page load.
NavAllInputs ==
    { <<"nav.dash">>, <<"goto.dashboard">>, <<"nav.todos">>, <<"goto.tasks">>,
      <<"nav.time">>, <<"goto.timelog">>, <<"nav.calendar">>, <<"goto.calendar">>,
      <<"nav.notes">>, <<"goto.notes">>, <<"nav.back">> }

NextNavAll ==
    \/ \E line \in NavAllInputs : Type(line)
    \/ Enter({"ok"}, MaxHistory)
    \/ Rerender

SpecNavAll == Init /\ [][NextNavAll]_vars

\* Flags in every form the parser distinguishes: a long flag with its value inline, with
\* a second '=', with nothing after the '=', with its value as the next word, as the
\* last word; a short flag of the table, one that is not, one that Object.prototype
\* knows; a value that looks like a flag; a lone dash.
FlagInputs ==
    { <<"todo.add", SP, "x", SP, DASH, DASH, "priority", EQ, "high">>,
      <<"todo.add", SP, "x", SP, DASH, DASH, "priority", EQ, "high", EQ, "er">>,
      <<"todo.add", SP, "x", SP, DASH, DASH, "priority", EQ, SP, "low">>,
      <<"todo.add", SP, "x", SP, DASH, DASH, "priority", SP, "low", SP, "y">>,
      <<"todo.add", SP, "x", SP, DASH, DASH, "priority">>,
      <<"todo.add", SP, "x", SP, DASH, "p", SP, "high">>,
      <<"todo.add", SP, DASH, "x", SP, "y", SP, "z">>,
      <<"todo.add", SP, DASH, "constructor", SP, "buy", SP, "milk">>,
      <<"todo.add", SP, "x", SP, DASH, "p", SP, DASH, "q">>,
      <<"todo.add", SP, "x", SP, DASH, DASH, "priority", SP, DASH, DASH, "date", SP, "y">>,
      <<"todo.add", SP, "x", SP, DASH, "p">>,
      <<"todo.add", SP, DASH, SP, "x">> }

NextFlags ==
    \/ \E line \in FlagInputs : Type(line)
    \/ Enter({"ok"}, MaxCommands)
    \/ Rerender

SpecFlags == Init /\ [][NextFlags]_vars

\* The history listing, over histories shorter and longer than its window.
HistoryInputs == { <<"history">>, <<"clear">> }

NextHistory ==
    \/ \E line \in HistoryInputs : Type(line)
    \/ Enter({"ok"}, MaxLongHistory)
    \/ Rerender

SpecHistory == Init /\ [][NextHistory]_vars

\* Clearing and reloading in a session that has a timer, a theme and a view of its own.
ClearInputs ==
    { <<"clear">>, <<"nav.refresh">>, <<"data.refresh">>, <<"time.start", SP, "write">>,
      <<"theme.change", SP, "green">>, <<"nav.todos">> }

NextClear ==
    \/ \E line \in ClearInputs : Type(line)
    \/ Enter({"ok"}, MaxHistory)
    \/ \E k \in 1..MaxHistory : \E r \in ResponsesIn({"ok"}) : Resume(k, r)
    \/ Reload
    \/ Rerender

SpecClear == Init /\ [][NextClear]_vars

\* The authentication terminal: both logins, a login that is neither, the other
\* commands, a blank line; every awaited call ends, in one of the three ways.
AuthInputs ==
    { <<"login", SP, DASH, "g">>,
      <<"login", SP, DASH, "u", EQ, "ann@example.org", SP, DASH, "p", EQ, "secret">>,
      <<"login", SP, DASH, "u">>, <<"help">>, <<"clear">>, <<"sign", DASH, "up">>,
      <<"whoami">>, <<SP>> }

settles == \E k \in 1..MaxCommands : \E outcome \in {"ok", "error", "throw"} : settle(k, outcome)

NextAuth ==
    \/ \E line \in AuthInputs : authChange(line)
    \/ handleSubmit
    \/ settles

SpecAuth == InitAuth /\ [][NextAuth]_vars /\ WF_vars(settles)

\* The same, from whatever the browser held at the first page load.
SpecStartup == InitStored /\ [][NextTheme]_vars

(* ------------------------------------------------------------------ *)
(* Claims                                                              *)
(* ------------------------------------------------------------------ *)

\* The command name and the positional arguments of an input line, for the claims.
commandOf(line) == Str(ToLowerCase(Split(Trim(line), SP)[1]))
positionalOf(line) == parseArgs(Tail(Split(Trim(line), SP))).positional

\* The step is an Enter on a non-empty input that was executed.
Submitted == ev'.op = "enter" /\ commandHistory' # commandHistory

\* Whole minutes elapsed, rounded down.
floorMinutes(ms) == ms \div MinuteMs

\* C1: when time.start B is submitted while the timer of A runs, exactly one
\* TimeEntry is submitted for A, its duration is the whole-minute floor of
\* (now - A's start) / 60000 ms, and once the command has completed the Active
\* Timer holds B with the start time of that moment.
C1_ReplacedTimerLoggedWithFloor ==
    [][ /\ (Submitted /\ commandOf(currentInput) = "time.start"
              /\ Len(positionalOf(currentInput)) >= 1 /\ activeTimeLog # Null)
           => /\ Len(calls') = Len(calls) + 1
              /\ calls'[Len(calls')].op = "time_logs.insert"
              /\ calls'[Len(calls')].text = <<activeTimeLog[1].activity>>
              /\ calls'[Len(calls')].num = floorMinutes(now - activeTimeLog[1].startTime)
        /\ \A k \in 1..Len(inflight) :
             (ev'.op = "resume" /\ Len(inflight') < Len(inflight)
                /\ inflight' = SubSeq(inflight, 1, k - 1) \o SubSeq(inflight, k + 1, Len(inflight))
                /\ inflight[k].cmd = "time.start")
             => activeTimeLog' = Some([activity |-> inflight[k].arg, startTime |-> now])
      ]_vars

\* C1 divergence reached: half a minute after time.start, a second time.start has
\* submitted the replaced timer with a duration of one minute.
C1_Witness ==
    /\ ev.op = "enter" /\ calls # <<>> /\ activeTimeLog # Null
    /\ calls[Len(calls)].op = "time_logs.insert"
    /\ calls[Len(calls)].outcome = "pending"
    /\ now - activeTimeLog[1].startTime = TickMs
    /\ calls[Len(calls)].num = 1

C3_RecallRoundTrip ==
    LET L == Len(commandHistory) IN
    /\ (ev.op = "up" /\ ev.ups > 0)
       => /\ historyIndex = L - ev.ups
          /\ currentInput = commandHistory[L - ev.ups + 1]
    /\ (ev.op = "down" /\ ev.ups > 0)
       => IF ev.downs = ev.ups
          THEN historyIndex = -1 /\ currentInput = <<>>
          ELSE /\ historyIndex = L - ev.ups + ev.downs
               /\ currentInput = commandHistory[L - ev.ups + ev.downs + 1]

\* C3 witness: the whole history was walked up and back down again.
C3_Witness ==
    /\ ev.op = "down" /\ ev.ups = MaxHistory /\ ev.downs = MaxHistory
    /\ Len(commandHistory) = MaxHistory

\* C4: the recall cursor is -1 or an index into the Command History; recall-previous
\* at index 0 stays at 0, recall-previous on an empty history and recall-next at -1
\* change nothing.
C4_CursorInRange ==
    /\ [](historyIndex = -1 \/ (0 <= historyIndex /\ historyIndex < Len(commandHistory)))
    /\ [][ /\ (ev'.op = "up" /\ historyIndex = 0) => historyIndex' = 0
           /\ (ev'.op = "up" /\ commandHistory = <<>>)
              => UNCHANGED <<historyIndex, currentInput, commandHistory>>
           /\ (ev'.op = "down" /\ historyIndex = -1)
              => UNCHANGED <<historyIndex, currentInput, commandHistory>>
       ]_vars

\* C4 witness: recall-next was pressed on the newest entry and left the history.
C4_Witness ==
    /\ ev.op = "down" /\ ev.ups = 1 /\ ev.downs = 1 /\ historyIndex = -1
    /\ Len(commandHistory) >= 2

\* Positions of an input line that hold something other than a space.
inkAt(line) == {i \in 1..Len(line) : line[i] # SP}

\* The line is empty or holds spaces only.
IsBlank(line) == inkAt(line) = {}

\* The line from its first to its last non-space position.
trimmedText(line) ==
    LET first == CHOOSE i \in inkAt(line) : \A j \in inkAt(line) : i <= j
        last == CHOOSE i \in inkAt(line) : \A j \in inkAt(line) : i >= j
    IN  SubSeq(line, first, last)

C6_BlankSubmitIsNoOp ==
    [][ (ev'.op = "enter" /\ IsBlank(currentInput))
        => UNCHANGED <<commands, commandHistory, historyIndex, activeTimeLog, currentTheme,
                       navigationHistory, calls, inflight, localStorage, pathname>>
      ]_vars

\* C6 witness: spaces were submitted while the recall cursor pointed into the history.
C6_Witness ==
    /\ ev.op = "enter" /\ currentInput # <<>> /\ IsBlank(currentInput)
    /\ historyIndex # -1 /\ Len(commands) > 1

\* The newest Transcript Entry of a transcript that has one.
lastEntry(t) == t[Len(t)]

\* t grew by exactly one entry at its end.
grewByOne(t, tNext) == Len(tNext) = Len(t) + 1 /\ SubSeq(tNext, 1, Len(t)) = t

reloadCommands == {"nav.refresh", "data.refresh"}

carriesMessage(c) ==
    \E i \in 1..Len(c.output) :
      \E j \in 1..Len(c.output[i]) :
        SubSeq(c.output[i], j, j + Len(errorMessage) - 1) = errorMessage

\* C8: whenever a collaborator call made by a command fails, the Transcript Entry of
\* that command is classified error and carries the failure message of the collaborator.
C8_FailedCallGivesErrorEntry ==
    [][ /\ (ev'.op = "enter" /\ Len(calls') > Len(calls)
              /\ lastEntry(calls').outcome \in {"error", "throw"})
           => /\ commands' # <<>> /\ lastEntry(commands').type = "error"
              /\ carriesMessage(lastEntry(commands'))
        /\ (ev'.op = "resume"
              /\ \E k \in 1..Len(calls) : /\ calls[k].outcome = "pending"
                                          /\ calls'[k].outcome \in {"error", "throw"})
           => /\ lastEntry(commands').type = "error"
              /\ carriesMessage(lastEntry(commands'))
      ]_vars

\* C8 divergence reached: the insert of todo.add failed and its entry says success.
C8_Witness ==
    /\ ev.op = "enter" /\ calls # <<>>
    /\ calls[Len(calls)].op = "todos.insert" /\ calls[Len(calls)].outcome = "error"
    /\ lastEntry(commands).input = <<"todo.add", SP, "x">>
    /\ lastEntry(commands).type = "success"

\* The flags of an input line, and the value given for a flag in its long or short form.
parsedOf(line) == parseArgs(Tail(Split(Trim(line), SP))).parsed
flagOf(line, long, short) == Or(Get(parsedOf(line), long), Get(parsedOf(line), short))

\* The theme an argument names: the argument without a leading dash.
themeNamed(arg) == Str(IF arg # <<>> /\ Head(arg) = DASH THEN Tail(arg) ELSE arg)

\* The input line is malformed: a required positional argument is missing, or the
\* priority, the theme, the minutes or the date given is not one the command takes.
ParseLevelError(line) ==
    LET cmd == commandOf(line)
        pos == positionalOf(line)
        priority == flagOf(line, "--priority", "-p")
        date == flagOf(line, "--date", "-d")
    IN  \/ /\ cmd \in {"todo.add", "todo.complete", "todo.delete", "time.start", "cal.add",
                       "note.search", "theme.change"}
           /\ Len(pos) < 1
        \/ cmd \in {"time.log", "note.add"} /\ Len(pos) < 2
        \/ /\ cmd = "todo.add" /\ priority # Null /\ priority[1] # <<>>
           /\ Str(priority[1]) \notin {"low", "medium", "high"}
        \/ /\ cmd = "theme.change" /\ Len(pos) >= 1
           /\ themeNamed(pos[1]) \notin {"green", "purple", "red", "black"}
        \/ /\ cmd = "time.log" /\ Len(pos) >= 2
           /\ (pos[Len(pos)] = <<>> \/ Head(pos[Len(pos)]) \notin {"5", "90"})
        \/ /\ cmd = "cal.add" /\ date # Null /\ date[1] # <<>>
           /\ Str(date[1]) # "2025-01-15"

hasLine(c, l) == \E i \in 1..Len(c.output) : c.output[i] = l

themesListed == <<"Available themes: green, purple, red, black">>

\* C10: a theme.change whose argument names no theme changes neither the Theme
\* Preference in memory nor the stored one, and its entry is classified error and lists
\* the themes; so after theme.change purple and then theme.change bogus both are purple.
C10_InvalidThemeKeepsTheme ==
    /\ [][ (ev'.op = "enter" /\ ~IsBlank(currentInput)
              /\ commandOf(currentInput) = "theme.change"
              /\ Len(positionalOf(currentInput)) >= 1
              /\ themeNamed(positionalOf(currentInput)[1])
                    \notin {"green", "purple", "red", "black"})
           => /\ currentTheme' = currentTheme
              /\ localStorage'.cyberTerminalTheme = localStorage.cyberTerminalTheme
              /\ lastEntry(commands').type = "error"
              /\ hasLine(lastEntry(commands'), themesListed)
       ]_vars
    /\ [](LET L == Len(commandHistory) IN
          (/\ ev.op = "enter" /\ L >= 2
           /\ commandHistory[L - 1] = <<"theme.change", SP, "purple">>
           /\ commandHistory[L] = <<"theme.change", SP, "bogus">>)
          => /\ currentTheme = "purple"
             /\ localStorage.cyberTerminalTheme = Some("purple")
             /\ lastEntry(commands).type = "error"
             /\ hasLine(lastEntry(commands), themesListed))

\* C10 witness: green, then purple, then bogus: the theme is purple, stored and shown.
C10_Witness ==
    /\ ev.op = "enter"
    /\ commandHistory = << <<"theme.change", SP, "green">>, <<"theme.change", SP, "purple">>,
                           <<"theme.change", SP, "bogus">> >>
    /\ currentTheme = "purple" /\ localStorage.cyberTerminalTheme = Some("purple")
    /\ lastEntry(commands).type = "error"

\* The store holds no theme, or a value that is none of the four themes.
noValidTheme(store) ==
    \/ store.cyberTerminalTheme = Null
    \/ store.cyberTerminalTheme[1] \notin {"green", "purple", "red", "black"}

\* C11: the Theme Preference is always one of green, purple, red, black, and a page
\* load that finds no theme or a value outside the enumeration in the store starts
\* with purple.
C11_ThemeInEnumeration ==
    /\ [](currentTheme \in {"green", "purple", "red", "black"})
    /\ [][ (ev'.op = "reload" /\ noValidTheme(localStorage))
           => queued'.currentTheme = "purple" ]_vars

\* C11 divergence reached: after a page load the console runs with a theme that is none
\* of the four, and has stored it again.
C11_Witness ==
    /\ phase = "ready" /\ ev.op = "render"
    /\ currentTheme = "blue" /\ localStorage.cyberTerminalTheme = Some("blue")

\* The words after the command name of an input line.
wordsOf(line) == Tail(Split(trimmedText(line), SP))

\* The line is theme.change with the single argument T or -T.
changesThemeTo(line, T) ==
    /\ ~IsBlank(line) /\ commandOf(line) = "theme.change"
    /\ wordsOf(line) \in { <<<<T>>>>, <<<<DASH, T>>>> }

\* C12: for every theme T of the enumeration, theme.change T and theme.change -T
\* succeed, set the Theme Preference to T and store T.
C12_ThemeChangeBothForms ==
    [][ \A T \in {"green", "purple", "red", "black"} :
          (ev'.op = "enter" /\ changesThemeTo(currentInput, T))
          => /\ currentTheme' = T
             /\ localStorage'.cyberTerminalTheme = Some(T)
             /\ lastEntry(commands').type = "success"
      ]_vars

\* C12 divergence reached: theme.change -red was refused and the theme is not red.
C12_Witness ==
    /\ ev.op = "enter" /\ commandHistory # <<>>
    /\ commandHistory[Len(commandHistory)] = <<"theme.change", SP, DASH, "red">>
    /\ lastEntry(commands).type = "error"
    /\ currentTheme # "red" /\ localStorage.cyberTerminalTheme # Some("red")

\* C13: nav.back with an empty Navigation History Stack appends an entry classified
\* error, does not call the navigation collaborator, and leaves the stack empty and the
\* current view as it is.
C13_BackOnEmptyStack ==
    [][ (ev'.op = "enter" /\ ~IsBlank(currentInput) /\ commandOf(currentInput) = "nav.back"
           /\ navigationHistory = <<>>)
        => /\ grewByOne(commands, commands')
           /\ lastEntry(commands').type = "error"
           /\ calls' = calls
           /\ navigationHistory' = <<>>
           /\ pathname' = pathname
      ]_vars

\* C13 witness: on the todos view after a reload, with nothing to go back to, nav.back
\* was refused.
C13_Witness ==
    /\ ev.op = "enter" /\ navigationHistory = <<>> /\ pathname = "/todos"
    /\ commandHistory # <<>> /\ commandHistory[Len(commandHistory)] = <<"nav.back">>
    /\ lastEntry(commands).input = <<"nav.back">>
    /\ lastEntry(commands).type = "error"

\* The word at i names the priority flag and the next word is its value.
flagWordAt(words, i) ==
    i < Len(words) /\ words[i] \in { <<DASH, "p">>, <<DASH, DASH, "priority">> }

\* The word at i is --priority=p.
flagInlineAt(words, i) ==
    Len(words[i]) = 5 /\ SubSeq(words[i], 1, 4) = <<DASH, DASH, "priority", EQ>>

\* The positions of the words that give the priority (the flag and its value).
flagPositions(words) ==
    {i \in 1..Len(words) : flagWordAt(words, i) \/ flagInlineAt(words, i)}
    \cup {i \in 2..Len(words) : flagWordAt(words, i - 1)}

\* A todo.add that gives its priority at most once, in one of the three forms.
plainAdd(words) ==
    /\ Cardinality({i \in 1..Len(words) :
                      flagWordAt(words, i) \/ flagInlineAt(words, i)}) <= 1
    /\ \A i \in 1..Len(words) :
         i \notin flagPositions(words) => (words[i] = <<>> \/ Head(words[i]) # DASH)

\* The priority given, medium when none is.
givenPriority(words) ==
    IF \E i \in 1..Len(words) : flagWordAt(words, i)
    THEN words[(CHOOSE i \in 1..Len(words) : flagWordAt(words, i)) + 1]
    ELSE IF \E i \in 1..Len(words) : flagInlineAt(words, i)
    THEN <<words[CHOOSE i \in 1..Len(words) : flagInlineAt(words, i)][5]>>
    ELSE <<"medium">>

\* The words that are not part of the flag, joined by single spaces, quotes removed.
RECURSIVE spaced(_, _, _)
spaced(words, i, out) ==
    IF i > Len(words) THEN out
    ELSE IF i \in flagPositions(words) THEN spaced(words, i + 1, out)
    ELSE spaced(words, i + 1, IF out = Null THEN Some(words[i])
                               ELSE Some(out[1] \o <<SP>> \o words[i]))

givenText(words) ==
    LET t == spaced(words, 1, Null) IN
    IF t = Null THEN <<>> ELSE SelectSeq(t[1], LAMBDA a : a \notin {SQUOTE, DQUOTE})

\* C14: a todo.add with a task text and a priority p of low, medium, high (given as
\* -p p, --priority=p or --priority p, or not given: medium) issues one create call
\* with priority p and with the text words joined by single spaces, quotes removed.
C14_TodoAddPassesPriority ==
    [][ LET words == wordsOf(currentInput) IN
        (ev'.op = "enter" /\ ~IsBlank(currentInput) /\ commandOf(currentInput) = "todo.add"
           /\ plainAdd(words) /\ spaced(words, 1, Null) # Null
           /\ Str(givenPriority(words)) \in {"low", "medium", "high"})
        => /\ Len(calls') = Len(calls) + 1
           /\ lastEntry(calls').op = "todos.insert"
           /\ lastEntry(calls').text = <<givenText(words), givenPriority(words)>>
      ]_vars

\* C14 witness: todo.add 'Ship release' -p high created "Ship release" with high.
C14_Witness ==
    /\ ev.op = "enter" /\ calls # <<>>
    /\ lastEntry(calls).text = << <<"Ship", SP, "release">>, <<"high">> >>
    /\ lastEntry(commands).type = "success"

\* The step completes the k-th suspended command.
completes(k) ==
    /\ ev'.op = "resume" /\ k \in 1..Len(inflight)
    /\ inflight' = SubSeq(inflight, 1, k - 1) \o SubSeq(inflight, k + 1, Len(inflight))

\* The step is an executed Enter of the command cmd.
submits(cmd) ==
    ev'.op = "enter" /\ ~IsBlank(currentInput) /\ commandOf(currentInput) = cmd

\* C15: time.stop with no Active Timer appends an error entry, makes no persistence
\* call and leaves the timer absent; with an Active Timer it submits exactly one
\* TimeEntry with the label of the timer and the whole minutes elapsed, and when it has
\* completed there is no Active Timer in memory or in the store.
C15_TimeStop ==
    [][ /\ (submits("time.stop") /\ activeTimeLog = Null)
           => /\ grewByOne(commands, commands')
              /\ lastEntry(commands').type = "error"
              /\ UNCHANGED <<calls, activeTimeLog, localStorage>>
              /\ localStorage.activeTimeLog = Null
        /\ (submits("time.stop") /\ activeTimeLog # Null)
           => /\ Len(calls') = Len(calls) + 1
              /\ lastEntry(calls').op = "time_logs.insert"
              /\ lastEntry(calls').text = <<activeTimeLog[1].activity>>
              /\ lastEntry(calls').num = floorMinutes(now - activeTimeLog[1].startTime)
        /\ \A k \in 1..Len(inflight) :
             (completes(k) /\ inflight[k].cmd = "time.stop")
             => /\ activeTimeLog' = Null
                /\ localStorage'.activeTimeLog = Null
                /\ calls'[inflight[k].call].outcome # "pending"
      ]_vars

\* C15 divergence reached: half a minute after time.start, time.stop has submitted a
\* duration of one minute.
C15_Witness ==
    /\ ev.op = "enter" /\ inflight # <<>> /\ lastEntry(inflight).cmd = "time.stop"
    /\ activeTimeLog # Null /\ now - activeTimeLog[1].startTime = TickMs
    /\ lastEntry(calls).op = "time_logs.insert" /\ lastEntry(calls).num = 1

\* C16: there is at most one Active Timer, and when a time.start replaces an Active
\* Timer, the TimeEntry that command submitted before the new timer became active is
\* the entry of the timer it replaces.
C16_ReplacedTimerSubmittedFirst ==
    /\ [](Len(activeTimeLog) <= 1)
    /\ [][ \A k \in 1..Len(inflight) :
             (completes(k) /\ inflight[k].cmd = "time.start" /\ activeTimeLog # Null)
             => /\ calls[inflight[k].call].op = "time_logs.insert"
                /\ calls[inflight[k].call].text = <<activeTimeLog[1].activity>>
       ]_vars

\* C16 divergence reached: with write running, time.start read and time.start write
\* were both submitted before either completed; read became the Active Timer and was
\* then replaced by write, and both entries submitted are for write.
C16_Witness ==
    /\ ev.op = "resume" /\ inflight = <<>>
    /\ commandHistory = << <<"time.start", SP, "write">>, <<"time.start", SP, "read">>,
                           <<"time.start", SP, "write">> >>
    /\ Len(calls) = 2 /\ calls[1].text = << <<"write">> >> /\ calls[2].text = << <<"write">> >>
    /\ activeTimeLog # Null /\ activeTimeLog[1].activity = <<"write">>

\* The names the dispatcher has a case for.
registeredCommands ==
    {"help", "nav.dash", "goto.dashboard", "nav.todos", "goto.tasks", "nav.time",
     "goto.timelog", "nav.calendar", "goto.calendar", "nav.notes", "goto.notes", "nav.back",
     "nav.refresh", "todo.add", "todo.list", "todo.complete", "todo.delete", "time.start",
     "time.stop", "time.status", "time.log", "time.today", "cal.add", "cal.today",
     "note.add", "note.search", "sys.status", "history", "data.refresh", "clear",
     "theme.change", "hack.time"}

\* The headings of the command families in the help overview.
commandFamilies ==
    { <<"NAVIGATION:">>, <<"TODO MANAGEMENT:">>, <<"TIME TRACKING:">>,
      <<"CALENDAR & NOTES:">>, <<"SYSTEM:">> }

\* C17: help appends an entry classified success or info that lists all command
\* families; a name that is no registered command appends an error entry with the
\* unknown-command guidance and changes no session state besides the Command History;
\* todo.add with no text appends an error entry citing the missing task description.
C17_HelpUnknownAndMissingText ==
    [][ /\ (ev'.op = "enter" /\ ~IsBlank(currentInput)
              /\ trimmedText(currentInput) = <<"help">>)
           => /\ grewByOne(commands, commands')
              /\ lastEntry(commands').type \in {"success", "info"}
              /\ \A f \in commandFamilies : hasLine(lastEntry(commands'), f)
        /\ (ev'.op = "enter" /\ ~IsBlank(currentInput)
              /\ commandOf(currentInput) \notin registeredCommands)
           => /\ grewByOne(commands, commands')
              /\ lastEntry(commands').type = "error"
              /\ hasLine(lastEntry(commands'),
                         <<"Command '", commandOf(currentInput), "' not recognized.">>)
              /\ hasLine(lastEntry(commands'), <<"Type 'help' for available commands.">>)
              /\ UNCHANGED <<activeTimeLog, currentTheme, navigationHistory, pathname,
                             localStorage, calls, inflight, phase>>
        /\ (ev'.op = "enter" /\ ~IsBlank(currentInput)
              /\ trimmedText(currentInput) = <<"todo.add">>)
           => /\ grewByOne(commands, commands')
              /\ lastEntry(commands').type = "error"
              /\ hasLine(lastEntry(commands'), <<"ERROR: Task description required">>)
              /\ calls' = calls
      ]_vars

\* C17 witness: help, unknowncmd and todo.add were submitted in turn and classified
\* success, error, error.
C17_Witness ==
    /\ ev.op = "enter"
    /\ commandHistory = << <<"help">>, <<"unknowncmd">>, <<"todo.add">> >>
    /\ Len(commands) = 4
    /\ commands[2].type = "success" /\ commands[3].type = "error"
    /\ commands[4].type = "error"

\* The inputs of the entries the commands of this page load appended.
RECURSIVE inputsOf(_)
inputsOf(t) ==
    IF t = <<>> THEN <<>>
    ELSE IF Head(t).input = bootCommand.input THEN inputsOf(Tail(t))
    ELSE <<Head(t).input>> \o inputsOf(Tail(t))

\* a can be obtained from b by leaving elements out, the order kept.
RECURSIVE isSubsequence(_, _)
isSubsequence(a, b) ==
    IF a = <<>> THEN TRUE
    ELSE IF b = <<>> THEN FALSE
    ELSE IF Head(a) = Head(b) THEN isSubsequence(Tail(a), Tail(b))
    ELSE isSubsequence(a, Tail(b))

\* C18: the Transcript is append-only and ordered by submission: an entry once
\* appended is never removed or altered, and the entries of the commands stand in the
\* order in which the commands were submitted, also when asynchronous commands overlap.
C18_TranscriptInSubmissionOrder ==
    /\ [][ SubSeq(commands', 1, Len(commands)) = commands ]_vars
    /\ [](isSubsequence(inputsOf(commands), commandHistory))

\* C18 divergence reached: todo.list was submitted before help, and its entry stands
\* after the entry of help.
C18_Witness ==
    /\ commandHistory = << <<"todo.list">>, <<"help">> >>
    /\ inputsOf(commands) = << <<"help">>, <<"todo.list">> >>

\* The entry c holds one whole output of the command that the input line names, with
\* the classification that goes with that output, and nothing else.
wholeOutputOf(input, c) ==
    LET cmd == commandOf(input)
        first == c.output[1]
        n == Len(c.output)
    IN  /\ c.input = input /\ n >= 1
        /\ CASE cmd = "help" ->
                  /\ c.type = "success" /\ n = 38
                  /\ first = <<"ENHANCED TERMINAL COMMANDS v3.0:">>
                  /\ c.output[n] = <<"Use 'help <command>' for detailed usage">>
             [] cmd = "time.status" ->
                  c.type = "info" /\ c.output = << <<"No active time tracking session">> >>
             [] cmd = "todo.list" ->
                  \/ c.type = "error" /\ c.output = << <<"ERROR: ">> \o errorMessage >>
                  \/ c.type = "info" /\ c.output = << <<"No todos found">> >>
                  \/ /\ c.type = "success" /\ n = 3
                     /\ first = <<"Found ", "1", " todo(s):">>
                     /\ Head(c.output[3]) = "1"
             [] cmd = "note.search" ->
                  \/ c.type = "error" /\ c.output = << <<"ERROR: ">> \o errorMessage >>
                  \/ /\ c.type = "success" /\ n \in {2, 4}
                     /\ first = <<"Found ", ToString((n - 2) \div 2),
                                  " note(s) matching \"", "x", "\":">>
                     /\ n = 4 => Head(c.output[3]) = "1"
             [] OTHER -> FALSE

\* C19: every entry appended, also while several asynchronous commands are in flight,
\* pairs the input of one command with the whole output and the classification of that
\* same command: never lines of two commands, never a part of an output.
C19_EntryOfOneCommand ==
    [][ /\ ev'.op = "resume"
           => \E k \in 1..Len(inflight) :
                /\ completes(k) /\ grewByOne(commands, commands')
                /\ wholeOutputOf(inflight[k].input, lastEntry(commands'))
        /\ (ev'.op = "enter" /\ ~IsBlank(currentInput) /\ Len(commands') > Len(commands))
           => /\ grewByOne(commands, commands')
              /\ wholeOutputOf(trimmedText(currentInput), lastEntry(commands'))
      ]_vars

\* C19 witness: with a note search still waiting, the todo list submitted before it
\* completed with its own three lines after help had been answered in between.
C19_Witness ==
    /\ ev.op = "resume" /\ Len(inflight) = 1 /\ inflight[1].cmd = "note.search"
    /\ commandHistory = << <<"todo.list">>, <<"note.search", SP, "x">>, <<"help">> >>
    /\ inputsOf(commands) = << <<"help">>, <<"todo.list">> >>
    /\ lastEntry(commands).type = "success" /\ Len(lastEntry(commands).output) = 3

\* The store holds exactly the timer t (none when t is null).
storedIs(store, t) ==
    store.activeTimeLog = (IF t = Null THEN Null ELSE Some(JSONstringify(t[1])))

\* C20: time.start commands in flight at once are last-write-wins: each, when it
\* completes, makes its own timer the one Active Timer in memory and in the store, so
\* after all have completed the timer is that of the command that completed last.
C20_LastWriteWins ==
    /\ [][ \A k \in 1..Len(inflight) :
             (completes(k) /\ inflight[k].cmd = "time.start")
             => /\ activeTimeLog' = Some([activity |-> givenText(wordsOf(inflight[k].input)),
                                          startTime |-> now])
                /\ storedIs(localStorage', activeTimeLog')
       ]_vars
    /\ [](phase = "ready" => (Len(activeTimeLog) <= 1 /\ storedIs(localStorage, activeTimeLog)))

\* C20 witness: with write running, time.start read and then time.start write were in
\* flight together; write completed first and read last, and read is the timer.
C20_Witness ==
    /\ ev.op = "resume" /\ inflight = <<>> /\ Len(calls) = 2
    /\ commandHistory = << <<"time.start", SP, "write">>, <<"time.start", SP, "read">>,
                           <<"time.start", SP, "write">> >>
    /\ activeTimeLog # Null /\ activeTimeLog[1].activity = <<"read">>
    /\ storedIs(localStorage, activeTimeLog)

\* The view a navigation command names.
viewOf(cmd) ==
    CASE cmd \in {"nav.dash", "goto.dashboard"} -> "/dashboard"
      [] cmd \in {"nav.todos", "goto.tasks"} -> "/todos"
      [] cmd \in {"nav.time", "goto.timelog"} -> "/timelog"
      [] cmd \in {"nav.calendar", "goto.calendar"} -> "/calendar"
      [] cmd \in {"nav.notes", "goto.notes"} -> "/notes"

navigationCommands ==
    {"nav.dash", "goto.dashboard", "nav.todos", "goto.tasks", "nav.time", "goto.timelog",
     "nav.calendar", "goto.calendar", "nav.notes", "goto.notes"}

\* The view and the stack after the commands h, from the view and the stack at.
RECURSIVE replayNav(_, _)
replayNav(h, at) ==
    IF h = <<>> THEN at
    ELSE LET cmd == Str(h[1]) IN
         replayNav(Tail(h),
                   IF cmd \in navigationCommands
                   THEN [view |-> viewOf(cmd), stack |-> Append(at.stack, at.view)]
                   ELSE IF cmd = "nav.back" /\ at.stack # <<>>
                   THEN [view |-> at.stack[Len(at.stack)],
                         stack |-> SubSeq(at.stack, 1, Len(at.stack) - 1)]
                   ELSE at)

\* C21: a navigation command pushes the view that was active onto the Navigation
\* History Stack and navigates to the view it names; nav.back on a non-empty stack pops
\* the top and navigates to it; so after a navigation command followed by nav.back the
\* view and the stack are what they were before the two.
C21_NavigateAndBack ==
    /\ [][ (ev'.op = "enter" /\ ~IsBlank(currentInput))
           => LET cmd == commandOf(currentInput) IN
              /\ cmd \in navigationCommands
                 => /\ navigationHistory' = Append(navigationHistory, pathname)
                    /\ pathname' = viewOf(cmd)
                    /\ Len(calls') = Len(calls) + 1
                    /\ calls'[Len(calls')].op = "navigate"
                    /\ calls'[Len(calls')].text = << <<viewOf(cmd)>> >>
              /\ (cmd = "nav.back" /\ navigationHistory # <<>>)
                 => /\ navigationHistory' = SubSeq(navigationHistory, 1,
                                                   Len(navigationHistory) - 1)
                    /\ pathname' = navigationHistory[Len(navigationHistory)]
                    /\ Len(calls') = Len(calls) + 1
                    /\ calls'[Len(calls')].op = "navigate"
                    /\ calls'[Len(calls')].text = << <<pathname'>> >>
       ]_vars
    /\ [](LET n == Len(commandHistory) IN
          (n >= 2 /\ Str(commandHistory[n - 1]) \in navigationCommands
                  /\ commandHistory[n] = <<"nav.back">>)
          => LET before == replayNav(SubSeq(commandHistory, 1, n - 2),
                                     [view |-> "/", stack |-> <<>>]) IN
             /\ pathname = before.view
             /\ navigationHistory = before.stack)

\* C21 witness: from the todos view with the start view below it, goto.notes and then
\* nav.back: the view is todos again and the stack holds the start view alone.
C21_Witness ==
    /\ ev.op = "enter"
    /\ commandHistory = << <<"nav.todos">>, <<"goto.notes">>, <<"nav.back">> >>
    /\ pathname = "/todos" /\ navigationHistory = <<"/">>
    /\ Len(calls) = 3 /\ calls[3].text = << <<"/todos">> >>

\* The words after the command name.
argsOf(line) == Tail(Split(Trim(line), SP))

\* A long flag word starts with two dashes; a short flag word is longer than one
\* character and starts with one dash.
isLongFlag(word) == Len(word) >= 2 /\ word[1] = DASH /\ word[2] = DASH
isShortFlag(word) == word # <<>> /\ word[1] = DASH /\ Length(word) > 1 /\ ~isLongFlag(word)

\* The place of the first '=' of a word, 0 when it has none.
firstEq(word) ==
    IF \E i \in 1..Len(word) : word[i] = EQ
    THEN CHOOSE i \in 1..Len(word) : word[i] = EQ /\ \A j \in 1..(i - 1) : word[j] # EQ
    ELSE 0

\* The alias table of the short flags.
aliasTable == [p |-> "priority", d |-> "date", t |-> "tags", h |-> "help", f |-> "format"]

\* The flags, the positional words and the places of the words consumed as values, as
\* the parser is described: a long flag with '=' is split once at the first '=' and
\* consumes nothing; a long flag without '=' and a short flag of the table consume the
\* next word (an empty value when there is none); any other short flag is dropped.
RECURSIVE describedLoop(_, _, _)
describedLoop(args, i, acc) ==
    IF i > Len(args) THEN acc
    ELSE LET word == args[i]
             next == IF i < Len(args) THEN args[i + 1] ELSE <<>>
             e == firstEq(word)
         IN
         IF isLongFlag(word) /\ e > 0
         THEN describedLoop(args, i + 1,
                  [acc EXCEPT !.parsed = Put(@, Str(SubSeq(word, 1, e - 1)),
                                             SubSeq(word, e + 1, Len(word)))])
         ELSE IF isLongFlag(word)
         THEN describedLoop(args, i + 2,
                  [acc EXCEPT !.parsed = Put(@, Str(word), next),
                              !.consumed = @ \cup ({i + 1} \cap (1..Len(args)))])
         ELSE IF isShortFlag(word) /\ Str(Tail(word)) \in DOMAIN aliasTable
         THEN describedLoop(args, i + 2,
                  [acc EXCEPT !.parsed = Put(@, "--" \o aliasTable[Str(Tail(word))], next),
                              !.consumed = @ \cup ({i + 1} \cap (1..Len(args)))])
         ELSE IF isShortFlag(word)
         THEN describedLoop(args, i + 1, acc)
         ELSE describedLoop(args, i + 1, [acc EXCEPT !.positional = Append(@, word)])

described(args) ==
    describedLoop(args, 1, [parsed |-> EmptyFlags, positional |-> <<>>, consumed |-> {}])

\* A flag value, undefined read as the empty value.
valueOf(o) == IF o = Null THEN <<>> ELSE o[1]

\* The parser yields the flags and the positional words described.
parsesAsDescribed(args) ==
    LET got == parseArgs(args)
        want == described(args)
    IN  /\ DOMAIN got.parsed = DOMAIN want.parsed
        /\ \A k \in DOMAIN want.parsed : valueOf(got.parsed[k]) = want.parsed[k]
        /\ got.positional = want.positional

\* The step executes the current input, whose arguments are args.
executes(args) == ev'.op = "enter" /\ ~IsBlank(currentInput) /\ argsOf(currentInput) = args

\* C22: a long flag --name=value is split once at the first '=': its value is all that
\* follows it, later '=' and the empty string included, and the next word is not
\* consumed; a long flag without '=' takes the next word as its value and skips it, or
\* has an empty value when it is the last word.
C22_LongFlags ==
    [][ \A line \in FlagInputs :
          (executes(argsOf(line))
             /\ (\E i \in 1..Len(argsOf(line)) : isLongFlag(argsOf(line)[i]))
             /\ (\A i \in 1..Len(argsOf(line)) : ~isShortFlag(argsOf(line)[i])))
          => parsesAsDescribed(argsOf(line))
      ]_vars

\* C22 divergence reached: todo.add x --priority=high=er was accepted with priority
\* high, the text after the second '=' lost.
C22_Witness ==
    /\ ev.op = "enter" /\ calls # <<>>
    /\ lastEntry(commands).input
         = <<"todo.add", SP, "x", SP, DASH, DASH, "priority", EQ, "high", EQ, "er">>
    /\ lastEntry(commands).type = "success"
    /\ calls[Len(calls)].text = << <<"x">>, <<"high">> >>

\* C23: a short flag whose letter is in the alias table is recorded under the long name
\* and consumes the next word as its value; a short flag that is not in the table is
\* dropped, is not positional, and the word after it is processed as any other.
C23_ShortFlags ==
    [][ \A line \in FlagInputs :
          (executes(argsOf(line))
             /\ (\E i \in 1..Len(argsOf(line)) : isShortFlag(argsOf(line)[i]))
             /\ (\A i \in 1..Len(argsOf(line)) : ~isLongFlag(argsOf(line)[i])))
          => parsesAsDescribed(argsOf(line))
      ]_vars

\* C23 divergence reached: todo.add -constructor buy milk added the task milk, the word
\* buy taken as the value of a flag.
C23_Witness ==
    /\ ev.op = "enter" /\ calls # <<>>
    /\ lastEntry(commands).input = <<"todo.add", SP, DASH, "constructor", SP, "buy", SP, "milk">>
    /\ lastEntry(commands).type = "success"
    /\ calls[Len(calls)].text = << <<"milk">>, <<"medium">> >>

\* The words of args at the places in keep, in their order.
RECURSIVE wordsAt(_, _, _)
wordsAt(args, keep, i) ==
    IF i > Len(args) THEN <<>>
    ELSE (IF i \in keep THEN <<args[i]>> ELSE <<>>) \o wordsAt(args, keep, i + 1)

\* The places of the flag words that stand for themselves (are not a flag's value).
flagPlaces(args) ==
    {i \in 1..Len(args) : (isLongFlag(args[i]) \/ isShortFlag(args[i]))
                          /\ i \notin described(args).consumed}

minOf(a, b) == IF a <= b THEN a ELSE b

\* The output lists the most recent min(10, L) entries of h, each with its 1-based
\* place in h.
listsRecent(output, h) ==
    LET L == Len(h)
        n == minOf(10, L)
    IN  /\ Len(output) = 2 + n
        /\ \A j \in 1..n :
             output[2 + j] = <<ToString(L - n + j), ". ">> \o h[L - n + j]

\* C25: history lists the most recent min(10, L) entries of a Command History of length
\* L >= 1, each numbered with its 1-based place in Command History.
C25_HistoryNumbering ==
    [][ (ev'.op = "enter" /\ ~IsBlank(currentInput)
           /\ trimmedText(currentInput) = <<"history">> /\ Len(commandHistory) >= 1)
        => /\ grewByOne(commands, commands')
           /\ lastEntry(commands').type = "success"
           /\ listsRecent(lastEntry(commands').output, commandHistory)
      ]_vars

\* C25 divergence reached: after one command, history numbers it -8.
C25_Witness ==
    /\ ev.op = "enter" /\ Len(commandHistory) = 2
    /\ lastEntry(commands).input = <<"history">>
    /\ Len(lastEntry(commands).output) = 3
    /\ lastEntry(commands).output[3] = <<"-8", ". ">> \o commandHistory[1]

\* The step leaves the Active Timer, the Theme Preference and the Navigation History
\* Stack as they are, in memory and in the store.
keepsSession ==
    /\ activeTimeLog' = activeTimeLog
    /\ currentTheme' = currentTheme
    /\ navigationHistory' = navigationHistory
    /\ localStorage' = localStorage

C27_EditKeepsCursor ==
    [][ LET L == Len(commandHistory) IN
        /\ (ev'.op = "type" /\ historyIndex # -1)
           => /\ currentInput' # currentInput
              /\ UNCHANGED <<historyIndex, commandHistory, commands, navigationHistory,
                             activeTimeLog, currentTheme, pathname, localStorage, calls>>
        /\ (ev.op = "type" /\ historyIndex # -1 /\ ev'.op = "up")
           => /\ historyIndex' = (IF historyIndex = 0 THEN 0 ELSE historyIndex - 1)
              /\ currentInput' = commandHistory[historyIndex' + 1]
        /\ (ev.op = "type" /\ historyIndex # -1 /\ ev'.op = "down")
           => IF historyIndex + 1 < L
              THEN /\ historyIndex' = historyIndex + 1
                   /\ currentInput' = commandHistory[historyIndex' + 1]
              ELSE historyIndex' = -1 /\ currentInput' = <<>>
        /\ (historyIndex # -1 /\ historyIndex' = -1)
           => \/ ev'.op = "enter" /\ ~IsBlank(currentInput)
              \/ ev'.op = "down" /\ historyIndex = L - 1
        /\ (ev'.op = "enter" /\ ~IsBlank(currentInput)) => historyIndex' = -1
      ]_vars

\* C27 witness: on the middle one of three recalled commands the input was edited; the
\* cursor is still on the middle one and the input is no longer what it recalled.
C27_Witness ==
    /\ ev.op = "type" /\ Len(commandHistory) = 3 /\ historyIndex = 1
    /\ currentInput # commandHistory[2] /\ currentInput # <<>>

\* The step submits a TimeEntry for the Active Timer: a time.start or time.stop on a
\* running timer is executed up to its call of the persistence collaborator.
submitsTimeEntry ==
    /\ ev'.op = "enter" /\ Len(inflight') = Len(inflight) + 1
    /\ inflight'[Len(inflight')].cmd \in {"time.start", "time.stop"}
    /\ calls'[Len(calls')].op = "time_logs.insert"

\* C28: an Active Timer is turned into a TimeEntry at most once: no TimeEntry is
\* submitted for a timer (label and start time) for which a command still awaiting the
\* persistence collaborator has submitted one.
C28_OneEntryPerTimer ==
    [][ submitsTimeEntry
        => \A k \in 1..Len(inflight) :
             inflight[k].cmd \in {"time.start", "time.stop"}
             => inflight[k].timer # activeTimeLog
      ]_vars

\* C28 divergence reached: time.stop was submitted twice before the first had
\* completed, and two TimeEntries were submitted for the one timer.
C28_Witness ==
    /\ ev.op = "enter" /\ Len(inflight) = 2
    /\ inflight[1].cmd = "time.stop" /\ inflight[2].cmd = "time.stop"
    /\ inflight[1].timer = inflight[2].timer /\ inflight[1].timer = activeTimeLog
    /\ activeTimeLog # Null
    /\ calls[inflight[1].call].op = "time_logs.insert"
    /\ calls[inflight[2].call].op = "time_logs.insert"
    /\ calls[inflight[1].call].text = calls[inflight[2].call].text

\* C29: a re-mount and the render that follows it leave the store as it was before the
\* re-mount: the stored Active Timer is not removed and the stored Theme Preference is
\* not overwritten.
C29_StartupKeepsStore ==
    [][ ev'.op \in {"reload", "render"} => localStorage' = localStorage ]_vars

\* C29 divergence reached: the page was loaded with a timer in the store; the mount
\* effects have read it and the save effects have removed it from the store before the
\* render that brings it back.
C29_Witness ==
    /\ ev.op = "reload" /\ phase = "hydrate"
    /\ queued.activeTimeLog # Null
    /\ localStorage.activeTimeLog = Null

\* C30: in the authentication terminal at most one login attempt is in flight; a
\* command submitted while an attempt is processing adds no line and starts no attempt;
\* every attempt, however it ends, sets the processing flag to false, and it does end,
\* after which a command is accepted.
C30_OneLoginAttempt ==
    /\ [](Len(attempts) <= 1 /\ (isProcessing <=> attempts # <<>>))
    /\ [][ /\ (ev'.op \in {"auth.submit", "auth.ignored"} /\ isProcessing)
              => (lines' = lines /\ attempts' = attempts)
           /\ ev'.op = "auth.settle" => (~isProcessing' /\ attempts' = <<>>)
           /\ (ev'.op \in {"auth.submit", "auth.ignored"} /\ ~isProcessing
                 /\ Trim(currentCommand) # <<>>)
              => (ev'.op = "auth.submit" /\ currentCommand' = <<>>)
       ]_vars
    /\ (isProcessing ~> ~isProcessing)

\* C30 witness: while the email login was being processed a submission was ignored;
\* the terminal shows the command and the line of the attempt and nothing more.
C30_Witness ==
    /\ ev.op = "auth.ignored" /\ isProcessing /\ Len(attempts) = 1
    /\ attempts[1].call = "signInWithPassword"
    /\ Len(lines) = 12 /\ lines[12].text = <<"Authenticating user: ", "ann@example.org">>
====
